---- MODULE Spec2Model ----
(***************************************************************************)
(* Model of the policy-enforcing proxy of middleware/src/index.ts (the     *)
(* current version of the file, lines 295-1021): the /v1/* handler with    *)
(* identity, auto-provisioning, checkAccess, upstream dispatch and usage   *)
(* accounting, the Redis counters and list queues, and the background      *)
(* worker that drains the queues into PostgreSQL.                          *)
(*                                                                         *)
(* Granularity: one action per awaited external operation (a PostgreSQL    *)
(* query, a Redis command, the upstream fetch).  The synchronous code that *)
(* follows an operation up to the next awaited one belongs to the action   *)
(* of the operation that completed.  A cache hit is synchronous.           *)
(*                                                                         *)
(* Two specifications share the actions.  Spec is the request path: all    *)
(* kinds of requests and upstream answers, the workers not scheduled, so   *)
(* the two Redis lists hold everything that was pushed.  SpecWorker is the *)
(* logging pipeline: requests that produce usage, and the workers of all   *)
(* replicas draining both lists.                                           *)
(***************************************************************************)
EXTENDS Integers, Sequences, FiniteSets, TLC

\* ------------------------------------------------------------------ bounds
MaxReq == 2          \* requests issued in one behaviour (all may overlap)
MaxTok == 2          \* largest token count the upstream reports
MaxDay == 2          \* UTC days the clock runs through
NumReplicas == 2     \* middleware processes sharing Redis and PostgreSQL
MaxFaults == 1       \* injected failures (Redis error reply, failed INSERT)
MaxStreamUsage == 1  \* SSE events of one stream that carry a usage object
MaxEvents == 2       \* SSE events in a streamed body that is read chunk by chunk
MaxChunks == 3       \* chunks such a body arrives in
MaxStreamReq == 1    \* requests whose streamed body is read chunk by chunk
DailyLimit == 1      \* daily_token_limit of the policy 'default' under test
MaxAdminReq == 1     \* /v1/* requests of a run that exercises the admin routes
MaxAuthCfgOps == 1   \* POST /admin/config requests of a run about the admin guard
MaxAuthOps == 2      \* other /admin requests of a run about the admin guard
MaxCacheOps == 1     \* /admin requests of a run about cache races
MaxWrites == 503     \* writeSystemLog calls of a run about the log buffer
MaxNow == 2          \* ticks of the clock in a run about cache races
MaxAdminOps == 3     \* /admin requests (other than /admin/config) per run
MonthlyLimit == 2    \* monthly_token_limit of the policy 'default' under test

\* ------------------------------------------------------- program constants
SYSTEM_LOG_LIMIT == 500     \* index.ts:336
WORKER_BATCH == 100         \* index.ts:634 and 642, drainQueue(queue, 100)
UNLIMITED == -1             \* schema: daily_token_limit BIGINT DEFAULT -1

Reqs == 1..MaxReq
Replicas == 1..NumReplicas
Days == 1..MaxDay
Users == {"u1"}
NoUser == "none"            \* userId === null
NoRow == [none |-> TRUE]    \* a query that returned no row
NullPolicy == "null"        \* users.policy_id IS NULL
Groups == {"g1"}
PolicyIds == {"default", "p1"}

\* All days of the model lie in one calendar month.
MonthOf(d) == 1

DailyKey(u, d) == <<"daily", u, d>>               \* usage:user:{id}:daily:{YYYY-MM-DD}
MonthlyKey(u, d) == <<"monthly", u, MonthOf(d)>>  \* usage:user:{id}:monthly:{YYYY-MM}

\* Denial reasons of checkAccess.
USER_INACTIVE == "User inactive or not found"
POLICY_MISSING(pid) == "Policy " \o pid \o " not found"
DAILY_EXCEEDED == "Daily token limit exceeded"
MONTHLY_EXCEEDED == "Monthly token limit exceeded"

VARIABLES
  traffic,            \* what clients and upstream send: "any" or "usage"
  day,                \* the current UTC day (new Date())
  users,              \* PostgreSQL table users: id -> row or NoRow
  policies,           \* PostgreSQL table policies: id -> row or NoRow
  groupPolicies,      \* PostgreSQL table group_policies: set of rows
  webuiGroups,        \* external UI datastore: user -> set of group names
  userCache,          \* per replica: user id -> cached row
  groupCache,         \* per replica: user id -> cached group list
  policyCache,        \* per replica: policy id -> cached row
  cacheAt,            \* per replica and cache: key -> expiresAt of the entry
  kv,                 \* Redis string keys: key -> integer value
  ttl,                \* Redis keys that carry a TTL
  usage_queue,        \* Redis list usage_queue, head = left end
  request_perf_queue, \* Redis list request_perf_queue, head = left end
  usage_logs,         \* PostgreSQL table usage_logs, in insertion order
  request_logs,       \* PostgreSQL table request_logs, in insertion order
  systemLogs,         \* per replica: in-process log, newest first
  req,                \* the /v1/* requests: their position and locals
  worker,             \* per replica: the background worker's position and locals
  faults,             \* failures injected so far
  system_config,      \* PostgreSQL table system_config: key -> value or NoRow
  procEnv,            \* per replica: process.env, key -> value
  runtime,            \* per replica: the module variables refreshRuntimeConfig sets
  conn,               \* per replica: the URL each Redis connection was opened with
  boot,               \* per replica: the position of the boot sequence
  reload,             \* per replica and message: the subscriber's reload
  cfgOp,              \* the POST /admin/config requests: position and locals
  adm,                \* the other /admin/* requests: count and last response
  ident,              \* identity resolution: the headers received and the result
  view,               \* GET /admin/config: the row read and its masked rendering
  now                 \* Date.now(), in ticks of one cache TTL (60 s)

vars == <<traffic, day, users, policies, groupPolicies, webuiGroups, userCache,
          groupCache, policyCache, kv, ttl, usage_queue, request_perf_queue,
          usage_logs, request_logs, systemLogs, req, worker, faults,
          system_config, procEnv, runtime, conn, boot, reload, cfgOp, adm, ident,
          view, now, cacheAt>>

ctlVars == <<system_config, procEnv, runtime, conn, boot, reload, cfgOp, adm>>

scnVars == <<traffic, ident, view, now>>
dbVars == <<scnVars, users, policies, groupPolicies, webuiGroups>>
cacheVars == <<userCache, groupCache, policyCache, cacheAt>>
redisVars == <<kv, ttl, usage_queue, request_perf_queue>>
auditVars == <<usage_logs, request_logs>>

\* ------------------------------------------------------------- small helpers
NoEntry == [hit |-> FALSE]                    \* cacheGet returned null
Entry(v) == [hit |-> TRUE, value |-> v]

\* USER_CACHE_TTL_MS, GROUP_CACHE_TTL_MS, POLICY_CACHE_TTL_MS: 60 s, one tick.
CACHE_TTL == 1

\* No entry of the three caches of a replica has been set.
NoExpiry == [user |-> [u \in Users |-> 0], group |-> [u \in Users |-> 0],
             policy |-> [p \in PolicyIds |-> 0]]

\* cacheGet over a whole cache: an entry whose expiresAt has passed reads as
\* missing (and is deleted, which no later read can tell).        index.ts:450-458
cacheGet(cache, expiresAt, miss) ==
  [k \in DOMAIN cache |-> IF now > expiresAt[k] THEN miss ELSE cache[k]]

\* The caches of replica rep as cacheGet reads them.
UserCacheOf(rep) == cacheGet(userCache[rep], cacheAt[rep].user, NoRow)
GroupCacheOf(rep) == cacheGet(groupCache[rep], cacheAt[rep].group, NoEntry)
PolicyCacheOf(rep) == cacheGet(policyCache[rep], cacheAt[rep].policy, NoRow)

\* cacheSet: expiresAt = Date.now() + ttlMs.                      index.ts:460-462
cacheSet(at, rep, cache, key) == [at EXCEPT ![rep][cache][key] = now + CACHE_TTL]

\* map.delete(key)                                           index.ts:888, 897, 903
cacheDelete(at, rep, cache, key) == [at EXCEPT ![rep][cache][key] = 0]

\* redis.mget / parseInt(v || "0"): a missing key reads as 0.     index.ts:541-543
ReadCounter(store, k) == IF k \in DOMAIN store THEN store[k] ELSE 0

\* Variant of IncrBy that takes the amount off the counter.
IncrBy_subtracting(store, k, n) ==
  [x \in DOMAIN store \cup {k} |-> IF x = k THEN ReadCounter(store, k) - n ELSE store[x]]

\* INCRBY: creates the key at 0 when it is missing, then adds.        index.ts:564
IncrBy(store, k, n) ==
  [x \in DOMAIN store \cup {k} |-> IF x = k THEN ReadCounter(store, k) + n ELSE store[x]]

\* Variant of writeSystemLog that appends and evicts from the front.
writeSystemLog_push(logs, level, message) ==
  LET grown == logs \o <<[level |-> level, message |-> message]>>
  IN IF Len(grown) > SYSTEM_LOG_LIMIT THEN SubSeq(grown, 2, Len(grown)) ELSE grown

\* writeSystemLog: unshift, then pop when over the limit.         index.ts:339-342
writeSystemLog(logs, level, message) ==
  LET grown == <<[level |-> level, message |-> message]>> \o logs
  IN IF Len(grown) > SYSTEM_LOG_LIMIT THEN SubSeq(grown, 1, Len(grown) - 1) ELSE grown

\* total = usage.total_tokens || (usage.prompt_tokens + usage.completion_tokens)
\*                                                                    index.ts:560
UsageTotal(usage) ==
  IF usage.total_tokens # 0 THEN usage.total_tokens
  ELSE usage.prompt_tokens + usage.completion_tokens

\* The usage objects the upstream reports: with total_tokens, or with the two
\* parts only.
UsageInputs ==
  {[total_tokens |-> t, prompt_tokens |-> 0, completion_tokens |-> 0] : t \in 1..MaxTok}
  \cup {[total_tokens |-> 0, prompt_tokens |-> 1, completion_tokens |-> MaxTok - 1]}

\* The sum of f over the finite set S.
RECURSIVE SumOver(_, _)
SumOver(f, S) ==
  IF S = {} THEN 0 ELSE LET x == CHOOSE y \in S : TRUE IN f[x] + SumOver(f, S \ {x})

\* ------------------------------------------------------------ request locals
IdleReq ==
  [pc |-> "idle", rep |-> 1, user |-> NoUser, method |-> "GET", json |-> FALSE,
   path |-> "",           \* params["*"]
   modelName |-> "unknown",
   hdr |-> NoUser,        \* the identity the request's headers carry
   \* locals of checkAccess, kept until the handler has used its result
   cuser |-> NoRow, groups |-> {}, pid |-> "", policy |-> NoRow,
   startAt |-> 0,         \* Date.now() when the handler was entered
   sel |-> NoRow,         \* the row an awaited SELECT has returned
   rdDaily |-> 0, rdMonthly |-> 0,
   trace |-> {},          \* what this checkAccess evaluation has read
   checked |-> FALSE, allowed |-> FALSE, reason |-> "",
   \* locals of processUsage
   kday |-> 1, total |-> 0, puStep |-> 0, puFailed |-> FALSE, puModel |-> "",
   \* the exchange with upstream and client
   upstream |-> 0,        \* upstream calls made for this request
   upStatus |-> 0, stream |-> FALSE, nUsage |-> 0,
   \* the streamed body: what upstream has yet to deliver and how the body ends,
   \* the reader's lock, the chunks read, the chunks enqueued downstream, the
   \* generator's buffer and position, the client's connection
   up |-> <<>>, upEnd |-> "end", locked |-> FALSE, rd |-> <<>>, down |-> <<>>,
   buf |-> <<>>, spc |-> "", client |-> "open", ended |-> "",
   status |-> 0,          \* status of the client response, 0 = none yet
   body |-> "",           \* what the client response carries
   redisFailed |-> FALSE, \* a Redis command of this request was rejected
   perfPushed |-> 0,      \* RequestLog payloads pushed for this request
   usagePushed |-> 0]     \* UsageEvents pushed for this request

\* checkAccess has returned and its result was used: its locals are gone.
DropCheckLocals(q) ==
  [q EXCEPT !.cuser = NoRow, !.groups = {}, !.pid = "", !.policy = NoRow,
            !.rdDaily = 0, !.rdMonthly = 0, !.trace = {}, !.kday = 1]

\* processUsage has returned: its locals are gone.
DropUsageLocals(q) ==
  [q EXCEPT !.kday = 1, !.total = 0, !.puStep = 0, !.puFailed = FALSE, !.puModel = ""]

\* ------------------------------------------------------------- checkAccess
\* Variant of QuotaVerdict that compares the monthly counter first.
QuotaVerdict_monthlyFirst(policy, dailyUsage, monthlyUsage) ==
  IF policy.monthly_token_limit > 0 /\ monthlyUsage >= policy.monthly_token_limit
    THEN MONTHLY_EXCEEDED
  ELSE IF policy.daily_token_limit > 0 /\ dailyUsage >= policy.daily_token_limit
    THEN DAILY_EXCEEDED
  ELSE "allowed"

\* Variant of QuotaVerdict that lets usage equal to the limit pass.
QuotaVerdict_strictlyOver(policy, dailyUsage, monthlyUsage) ==
  IF policy.daily_token_limit > 0 /\ dailyUsage > policy.daily_token_limit
    THEN DAILY_EXCEEDED
  ELSE IF policy.monthly_token_limit > 0 /\ monthlyUsage > policy.monthly_token_limit
    THEN MONTHLY_EXCEEDED
  ELSE "allowed"

\* The two limit comparisons of checkAccess.                      index.ts:545-553
QuotaVerdict(policy, dailyUsage, monthlyUsage) ==
  IF policy.daily_token_limit > 0 /\ dailyUsage >= policy.daily_token_limit
    THEN DAILY_EXCEEDED
  ELSE IF policy.monthly_token_limit > 0 /\ monthlyUsage >= policy.monthly_token_limit
    THEN MONTHLY_EXCEEDED
  ELSE "allowed"

\* Variant of Deny in which the handler goes on to the upstream call.
Deny_forwarding(q, reason) ==
  [q EXCEPT !.allowed = FALSE, !.reason = reason, !.pc = "fetch"]

\* if (!access.allowed) { set.status = 403; return { error: access.reason }; }
\*                                                                    index.ts:779
Deny(q, reason) ==
  [q EXCEPT !.allowed = FALSE, !.reason = reason, !.status = 403, !.body = reason,
            !.pc = "done"]

\* body.user = userId; headers; the upstream fetch is issued.     index.ts:780-796
ToFetch(q) == [q EXCEPT !.pc = "fetch"]

\* return { allowed: true, groups }                                   index.ts:553
Allow(q) == ToFetch([q EXCEPT !.allowed = TRUE])

\* The row a lookup by id finds in the policies table or in a policy cache; no
\* row has the id NULL.
PolicyRow(table, pid) == IF pid \in DOMAIN table THEN table[pid] ELSE NoRow

\* const policy = await getPolicyCached(activePolicyId); if (!policy) return ...;
\* the counter keys are built and the mget is issued.             index.ts:534-541
GotPolicy(q, p, today) ==
  IF p = NoRow THEN Deny(q, POLICY_MISSING(q.pid))
  ELSE [q EXCEPT !.policy = p, !.kday = today, !.pc = "ca_mget"]

\* getPolicyCached: a cache hit returns at once, a miss awaits the query.
\*                                                                index.ts:493-499
GotPolicyId(q, pid, pcache, today) ==
  IF PolicyRow(pcache, pid) # NoRow
    THEN GotPolicy([q EXCEPT !.pid = pid], pcache[pid], today)
  ELSE [q EXCEPT !.pid = pid, !.pc = "ca_policy_db"]

\* Variant of resolveEffectivePolicy that never looks at the group mapping.
resolveEffectivePolicy_directOnly(q, pcache, today) ==
  GotPolicyId(q, q.cuser.policy_id, pcache, today)

\* Variant of resolveEffectivePolicy that queries the group mapping for everyone.
resolveEffectivePolicy_alwaysQuery(q, pcache, today) == [q EXCEPT !.pc = "ca_resolve_db"]

\* resolveEffectivePolicy: the group mapping is queried only for a user on
\* 'default' with a non-empty group list.                         index.ts:507-525
resolveEffectivePolicy(q, pcache, today) ==
  IF q.cuser.policy_id = "default" /\ q.groups # {}
    THEN [q EXCEPT !.pc = "ca_resolve_db"]
    ELSE GotPolicyId(q, q.cuser.policy_id, pcache, today)

\* if (!user || !user.is_active) return { allowed: false, ... }       index.ts:531
GotGroups(q, pcache, today) ==
  IF q.cuser = NoRow \/ q.cuser.is_active = 0 THEN Deny(q, USER_INACTIVE)
  ELSE resolveEffectivePolicy(q, pcache, today)

\* getUserGroups: a cached list returns at once, else the UI datastore is asked.
\*                                                                index.ts:464-467
GotUser(q, gcache, pcache, today) ==
  IF gcache[q.user].hit
    THEN GotGroups([q EXCEPT !.groups = gcache[q.user].value,
                             !.trace = @ \cup {"groups"}], pcache, today)
    ELSE [q EXCEPT !.pc = "ca_groups_db"]

\* checkAccess entry, getUserCached: ensureUserExists cached the row in this turn
\* of the handler (index.ts:504), so cacheGet returns it.    index.ts:485-487, 528
checkAccess(q, ucache, gcache, pcache, today) ==
  GotUser([q EXCEPT !.checked = TRUE, !.cuser = ucache[q.user],
                    !.trace = @ \cup {"user"}], gcache, pcache, today)

\* The handler's condition for parsing the body and, with an identity, running
\* checkAccess.                                              index.ts:774, 777
NeedsCheck(q) == q.method = "POST" /\ q.json /\ q.user # NoUser

\* The handler after identity resolution and ensureUserExists.    index.ts:772-782
AfterIdentity(q, ucache, gcache, pcache, today) ==
  IF NeedsCheck(q) THEN checkAccess(q, ucache, gcache, pcache, today)
  ELSE ToFetch(q)

\* ------------------------------------------------- masking of config values
MaxValueLen == 10    \* characters of a config value

\* A config value is a text over two characters, a letter and the asterisk.
Chars == {"a", "*"}
ConfigTexts == UNION {[1..n -> Chars] : n \in 0..MaxValueLen}

\* The words a config key is made of.                            index.ts:323-332
KeyWords ==
  [OPENROUTER_API_KEY |-> {"OPENROUTER", "API", "KEY"},
   ADMIN_API_KEY |-> {"ADMIN", "API", "KEY"},
   OPENROUTER_HTTP_REFERER |-> {"OPENROUTER", "HTTP", "REFERER"},
   OPENROUTER_X_TITLE |-> {"OPENROUTER", "X", "TITLE"},
   LOG_MODE |-> {"LOG", "MODE"},
   REDIS_URL |-> {"REDIS", "URL"},
   DATABASE_URL |-> {"DATABASE", "URL"},
   WEBUI_DATABASE_URL |-> {"WEBUI", "DATABASE", "URL"}]

\* key.includes(word), for the keys of CONFIG_KEYS.                   index.ts:346
includes(key, word) == word \in KeyWords[key]

STARS == [i \in 1..8 |-> "*"]

\* Variant of maskConfigValue that renders the value as it is.
maskConfigValue_raw(key, value) == value

\* maskConfigValue                                                index.ts:344-351
maskConfigValue(key, value) ==
  IF value = <<>> THEN <<>>
  ELSE IF includes(key, "KEY") \/ includes(key, "PASSWORD") \/ includes(key, "SECRET")
    THEN IF Len(value) <= 8 THEN STARS
         ELSE SubSeq(value, 1, 4) \o STARS \o SubSeq(value, Len(value) - 3, Len(value))
  ELSE value

IdleView == [pc |-> "idle", key |-> "", value |-> <<>>, masked |-> <<>>]

\* GET /admin/config, for one row of system_config: masked[row.key] =
\* maskConfigValue(row.key, row.value).                               index.ts:972
MaskRow ==
  /\ view.pc = "read"
  /\ view' = [view EXCEPT !.pc = "rendered", !.masked = maskConfigValue(view.key, view.value)]
  /\ UNCHANGED <<traffic, ident, now, day, users, policies, groupPolicies, webuiGroups, cacheVars,
                 redisVars, auditVars, systemLogs, req, worker, faults, ctlVars>>

\* ------------------------------------------------------ identity resolution
\* Strings by what toLowerCase and trim act on: the text in lower case without
\* surrounding whitespace (core), whether some letter is upper case, whether
\* whitespace surrounds the text. The string of blanks only has an empty core.
Str(core, upper, padded) == [core |-> core, upper |-> upper, padded |-> padded]
Absent == [absent |-> TRUE]       \* headers.get(...) === null, a missing JSON field
Null == [null |-> TRUE]           \* userId = null
Num == [num |-> 7]                \* a JSON number
IsStr(v) == DOMAIN v = {"core", "upper", "padded"}
Truthy(v) == IF IsStr(v) THEN v.core # "" \/ v.padded ELSE v = Num
toLowerCase(s) == [s EXCEPT !.upper = FALSE]
trim(s) == [s EXCEPT !.padded = FALSE]

\* a || b
Or(a, b) == IF Truthy(a) THEN a ELSE b

\* getUserFromJWT: fewer than two parts, an exception from atob or JSON.parse,
\* from a property access on null or from toLowerCase on a non-string -> null.
\*                                                                index.ts:429-440
getUserFromJWT(token) ==
  IF token.kind # "json" \/ token.data = Null THEN Null
  ELSE LET id == Or(token.data.email, Or(token.data.id, token.data.sub))
       IN IF ~Truthy(id) THEN Null
          ELSE IF ~IsStr(id) THEN Null
          ELSE toLowerCase(id)

\* The identity resolution of the /v1/* handler.                  index.ts:762-768
ResolveUserId(h) ==
  LET rawUserId == Or(h.email, h.id)
      userId == IF Truthy(rawUserId) THEN trim(toLowerCase(rawUserId)) ELSE Null
  IN IF Truthy(userId) THEN userId
     ELSE IF h.authorization # Absent /\ h.authorization.scheme = "Bearer"
       THEN getUserFromJWT(h.authorization.token)
       ELSE userId

\* Header values as request.headers.get returns them: the HTTP layer has
\* removed surrounding whitespace.
HeaderValues(name) == {Absent, Str("", FALSE, FALSE), Str(name, FALSE, FALSE), Str(name, TRUE, FALSE)}

\* Values of the fields email, id and sub of a token payload.
ClaimValues(name) ==
  {Absent, Num, Str("", FALSE, FALSE), Str("", FALSE, TRUE),
   Str(name, FALSE, FALSE), Str(name, TRUE, FALSE), Str(name, FALSE, TRUE)}

\* The second word of the authorization header: without a dot, not decodable
\* as base64 JSON, or a JSON payload.
Tokens ==
  {[kind |-> "onepart", data |-> Null], [kind |-> "undecodable", data |-> Null],
   [kind |-> "json", data |-> Null]}
    \cup {[kind |-> "json", data |-> [email |-> em, id |-> i, sub |-> s]] :
            em \in ClaimValues("e@x"), i \in ClaimValues("id1"), s \in ClaimValues("sub1")}

AuthorizationValues ==
  {Absent, [scheme |-> "Basic", token |-> [kind |-> "onepart", data |-> Null]]}
    \cup {[scheme |-> "Bearer", token |-> t] : t \in Tokens}

IdentityInputs ==
  [email : HeaderValues("e@x"), id : HeaderValues("id1"), authorization : AuthorizationValues]

IdleIdent == [pc |-> "idle", headers |-> Absent, userId |-> Null]

\* The handler resolves the identity of the request it received.
ResolveIdentity ==
  /\ ident.pc = "received"
  /\ ident' = [ident EXCEPT !.pc = "resolved", !.userId = ResolveUserId(ident.headers)]
  /\ UNCHANGED <<traffic, view, now, ctlVars, day, users, policies, groupPolicies, webuiGroups,
                 cacheVars, redisVars, auditVars, systemLogs, req, worker, faults>>

\* -------------------------------------------------------------------- Init
\* How a run starts: what the clients send, the row the users table holds for
\* the user (none = first sighting, assigned to 'p1' by an admin, deactivated by
\* an admin) and the user's groups in the UI datastore.
\*   "any":   requests of every kind, one after the other, over several days;
\*   "burst": overlapping requests of one user on the policy 'default';
\*   "usage": overlapping requests that produce usage, for the logging pipeline;
\*   "usage1": the same with a single replica deployed, hence a single worker;
\*   "drain":  no requests, both queues hold what earlier requests pushed.
Scenarios ==
  {[traffic |-> "any", row |-> NoRow, groups |-> {}],
   [traffic |-> "any", row |-> NoRow, groups |-> Groups],
   [traffic |-> "any", row |-> [is_active |-> 1, policy_id |-> "p1"], groups |-> Groups],
   [traffic |-> "any", row |-> [is_active |-> 0, policy_id |-> "default"], groups |-> {}],
   [traffic |-> "burst", row |-> NoRow, groups |-> {}]}

IdleWorker == [pc |-> "pop_usage", usageBatch |-> <<>>, perfBatch |-> <<>>, drained |-> FALSE]

\* The rows of policies and group_policies when a run starts.
InitPolicies ==
  [p \in PolicyIds |->
     IF p = "default"
       THEN [daily_token_limit |-> DailyLimit, monthly_token_limit |-> MonthlyLimit]
       ELSE [daily_token_limit |-> UNLIMITED, monthly_token_limit |-> UNLIMITED]]

InitGroupPolicies == {[group_name |-> "g1", policy_id |-> "p1", priority |-> 0]}

\* ------------------------------------------------- runtime configuration
MaxCfgOps == 2       \* POST /admin/config requests per behaviour
CfgOps == 1..MaxCfgOps

\* index.ts:323-332
CONFIG_KEYS ==
  <<"OPENROUTER_API_KEY", "ADMIN_API_KEY", "OPENROUTER_HTTP_REFERER",
    "OPENROUTER_X_TITLE", "LOG_MODE", "REDIS_URL", "DATABASE_URL",
    "WEBUI_DATABASE_URL">>

ConfigKeySet == {CONFIG_KEYS[i] : i \in 1..Len(CONFIG_KEYS)}

\* index.ts:304-310
required ==
  {"OPENROUTER_API_KEY", "ADMIN_API_KEY", "OPENROUTER_HTTP_REFERER",
   "OPENROUTER_X_TITLE", "LOG_MODE"}

\* The module variables refreshRuntimeConfig assigns (index.ts:317-321).
RuntimeKeys ==
  {"OPENROUTER_API_KEY", "ADMIN_API_KEY", "OPENROUTER_HTTP_REFERER",
   "OPENROUTER_X_TITLE", "LOG_MODE"}

NoConfigRow == "(no row)"   \* system_config has no row for the key
NoConfig == [k \in ConfigKeySet |-> NoConfigRow]
NoUpdates == [k \in {} |-> ""]
NotConnected == "(none)"

\* What the deployment puts into every process environment. The fail-fast
\* checks (index.ts:312-315, redis.ts and db.ts at import) let a process start
\* only when all eight values are present.
EnvAtStart == [k \in ConfigKeySet |-> "env"]

\* Rows that an earlier deployment left in system_config.
RowsOfEarlierDeployment == [k \in ConfigKeySet |-> "db"]

\* validateConfigMap: the required keys that are missing or blank; the code
\* throws "Missing required config: ..." when the list is not empty.
validateConfigMap_lenient(values) == {}

validateConfigMap(values) ==
  {k \in required : values[k] = NoConfigRow \/ values[k] = ""}

\* refreshRuntimeConfig: copies process.env into the module variables.
refreshRuntimeConfig(env) == [k \in RuntimeKeys |-> env[k]]

\* loadRuntimeConfigFromDb after a successful validation:
\* process.env[key] = fromDb[key] || "".
EnvFromDb(env, fromDb) ==
  [k \in ConfigKeySet |-> IF fromDb[k] = NoConfigRow THEN "" ELSE fromDb[k]]

\* The JSON bodies the admin sends.
CfgBodies ==
  { [k \in {"ADMIN_API_KEY", "LOG_MODE"} |-> "a"],
    [k \in {"LOG_MODE"} |-> "b"],
    [k \in {"LOG_MODE"} |-> ""],
    [k \in {"REDIS_URL"} |-> ""] }

\* POST /admin/config, index.ts:984-990: the current rows overlaid with the
\* recognized keys of the body.
MergeUpdates(current, updates) ==
  [k \in ConfigKeySet |-> IF k \in DOMAIN updates THEN updates[k] ELSE current[k]]

IdleBoot == [pc |-> "up", idx |-> 0]
IdleReload == [pc |-> "none", snap |-> NoConfig]
IdleCfgOp ==
  [pc |-> "idle", rep |-> 0, updates |-> NoUpdates, merged |-> NoConfig,
   idx |-> 0, snap |-> NoConfig, status |-> 0, error |-> {}, key |-> ""]
IdleAdm ==
  [n |-> 0, pc |-> "idle", rep |-> 0, kind |-> "none", id |-> "none", key |-> "",
   success |-> TRUE, status |-> 0,
   at |-> 0]              \* Date.now() when the latest request was answered

\* The x-admin-key headers callers send: the key of the environment, of the
\* earlier deployment's rows, the one a config change sets, or none.
NoKey == "(absent)"
AdminKeysSent == {"env", "db", "a", NoKey}

\* A deployment that has booted from an empty system_config and has seen no
\* admin request.
InitCtlIdle ==
  /\ system_config = EnvAtStart
  /\ procEnv = [rep \in Replicas |-> EnvAtStart]
  /\ runtime = [rep \in Replicas |-> refreshRuntimeConfig(EnvAtStart)]
  /\ conn = [rep \in Replicas |-> [redis |-> EnvAtStart["REDIS_URL"],
                                   subscriber |-> EnvAtStart["REDIS_URL"]]]
  /\ boot = [rep \in Replicas |-> IdleBoot]
  /\ reload = [rep \in Replicas |-> [o \in CfgOps |-> IdleReload]]
  /\ cfgOp = [o \in CfgOps |-> IdleCfgOp]
  /\ adm = IdleAdm

\* After boot (index.ts:1015-1020) and initDb: the policy 'default' exists; an
\* admin has added the unlimited policy 'p1' and mapped group 'g1' to it.
InitRuntime ==
  /\ day = 1
  /\ policies = InitPolicies
  /\ userCache = [rep \in Replicas |-> [u \in Users |-> NoRow]]
  /\ groupCache = [rep \in Replicas |-> [u \in Users |-> NoEntry]]
  /\ policyCache = [rep \in Replicas |-> [p \in PolicyIds |-> NoRow]]
  /\ cacheAt = [rep \in Replicas |-> NoExpiry]
  /\ kv = <<>>
  /\ ttl = {}
  /\ usage_queue = <<>>
  /\ request_perf_queue = <<>>
  /\ usage_logs = <<>>
  /\ request_logs = <<>>
  /\ systemLogs = [rep \in Replicas |-> <<[level |-> "info", message |-> "Middleware started"]>>]
  /\ req = [r \in Reqs |-> IdleReq]
  /\ worker = [rep \in Replicas |-> IdleWorker]
  /\ faults = 0

InitProxy ==
  /\ groupPolicies = InitGroupPolicies
  /\ ident = IdleIdent /\ view = IdleView /\ now = 0
  /\ InitRuntime

InitCommon == InitProxy /\ InitCtlIdle

Init ==
  /\ \E s \in Scenarios :
       /\ traffic = s.traffic
       /\ users = [u \in Users |-> s.row]
       /\ webuiGroups = [u \in Users |-> s.groups]
  /\ InitCommon

InitWorker ==
  /\ traffic \in {"usage", "usage1"}
  /\ users = [u \in Users |-> [is_active |-> 1, policy_id |-> "p1"]]
  /\ webuiGroups = [u \in Users |-> {}]
  /\ InitCommon

\* The replicas that are deployed: they take requests and run a worker.
Deployed == IF traffic = "usage1" THEN {1} ELSE Replicas

\* ------------------------------------------------------- the /v1/* handler
\* One ioredis connection per replica: Redis runs the commands of a connection in
\* the order they were issued, so no command of the same replica runs between the
\* five commands processUsage issues together.                    index.ts:563-573
ConnFree(rep, r) ==
  \A t \in Reqs \ {r} : ~(req[t].rep = rep /\ req[t].pc = "pu" /\ req[t].puStep > 1)

\* Scenario "stream" takes every body of up to MaxEvents events; "stream1" an
\* empty body and one with an event that is no JSON followed by one with usage.
StreamTraffic == {"stream", "stream1"}

\* The requests clients send: method, JSON content-type, path "models", identity.
RequestKinds ==
  IF traffic \in {"drain", "config"} THEN {}
  ELSE IF traffic \in StreamTraffic
    THEN {[method |-> "POST", json |-> TRUE, models |-> FALSE, model |-> "m-req", user |-> "u1"],
          [method |-> "POST", json |-> TRUE, models |-> FALSE, model |-> "m-req", user |-> NoUser]}
  ELSE IF traffic = "models"
    THEN {[method |-> "POST", json |-> TRUE, models |-> FALSE, model |-> "m-req", user |-> "u1"],
          [method |-> "GET", json |-> FALSE, models |-> TRUE, model |-> "m-req", user |-> "u1"],
          [method |-> "GET", json |-> FALSE, models |-> TRUE, model |-> "m-req", user |-> NoUser]}
  ELSE IF traffic \in {"usage", "usage1", "admin", "resolve", "cache"}
    THEN {[method |-> "POST", json |-> TRUE, models |-> FALSE, model |-> "m-req", user |-> "u1"]}
  ELSE IF traffic = "burst"
    THEN {[method |-> "POST", json |-> TRUE, models |-> FALSE, model |-> "m-req", user |-> "u1"],
          [method |-> "PUT", json |-> TRUE, models |-> FALSE, model |-> "m-req", user |-> "u1"]}
    ELSE {[method |-> "POST", json |-> TRUE, models |-> FALSE, model |-> "m-req", user |-> "u1"],
          [method |-> "POST", json |-> TRUE, models |-> FALSE, model |-> "m-req", user |-> NoUser],
          [method |-> "PUT", json |-> TRUE, models |-> FALSE, model |-> "m-req", user |-> "u1"],
          [method |-> "GET", json |-> FALSE, models |-> TRUE, model |-> "m-req", user |-> NoUser]}

NoUsage == [absent |-> TRUE]      \* the response body has no usage object

\* The SSE events of a streamed body: a data line with a JSON text (with usage
\* and model, with usage only, with model only, or broken), with [DONE], with
\* nothing, with blanks around the JSON; a line that is no data line.
SseEvents ==
  {<<"data: ", p, "NL", "NL">> : p \in {"J_um", "J_u", "J_m", "{", "[DONE]"}}
  \cup {<<"data: ", "NL", "NL">>, <<"data: ", " ", "J_u", "NL", "NL">>, <<"J_um", "NL", "NL">>}

SseBodies ==
  IF traffic = "stream1"
    THEN {<<>>, <<"data: ", "{", "NL", "NL", "data: ", "J_um", "NL", "NL">>}
    ELSE {<<>>} \cup SseEvents \cup
         (IF MaxEvents >= 2 THEN {a \o b : a \in SseEvents, b \in SseEvents} ELSE {})

\* The ways a body arrives in up to MaxChunks chunks.
ChunkingsOf(s) ==
  LET n == Len(s)
  IN (IF n = 0 THEN {<<>>} ELSE {<<s>>})
     \cup (IF MaxChunks >= 2
            THEN {<<SubSeq(s, 1, i), SubSeq(s, i + 1, n)>> : i \in 1..(n - 1)} ELSE {})
     \cup (IF MaxChunks >= 3
            THEN {<<SubSeq(s, 1, c[1]), SubSeq(s, c[1] + 1, c[2]), SubSeq(s, c[2] + 1, n)>> :
                    c \in {d \in (1..(n - 1)) \X (1..(n - 1)) : d[1] < d[2]}}
            ELSE {})

SseStreams == UNION {ChunkingsOf(s) : s \in SseBodies}

\* What the upstream may answer: status, content-type class, usage object.
UpstreamResponses ==
  IF traffic \in StreamTraffic
    THEN {[status |-> 200, ctype |-> "sse", model |-> "m-up", usage |-> NoUsage,
           chunks |-> c, ends |-> x] : c \in SseStreams, x \in {"end", "error"}}
  ELSE
  IF traffic \in {"admin", "resolve", "cache"}
    THEN {[status |-> 200, ctype |-> "json", model |-> "m-up", usage |-> NoUsage]}
  ELSE IF traffic \in {"usage", "usage1", "models"}
    THEN {[status |-> 200, ctype |-> "json", model |-> "m-up",
           usage |-> [total_tokens |-> 1, prompt_tokens |-> 0, completion_tokens |-> 0]]}
  ELSE IF traffic = "burst"
    THEN {[status |-> 200, ctype |-> "json", model |-> "m-up", usage |-> u] : u \in UsageInputs}
    ELSE {[status |-> 200, ctype |-> "json", model |-> "m-up", usage |-> u] :
             u \in UsageInputs \cup {NoUsage}}
         \cup {[status |-> 500, ctype |-> "json", model |-> "m-up", usage |-> NoUsage],
               [status |-> 200, ctype |-> "text", model |-> "m-up", usage |-> NoUsage],
               [status |-> 200, ctype |-> "sse", model |-> "m-up", usage |-> NoUsage,
                chunks |-> <<>>, ends |-> "end"]}

\* logRequestPerformance is called: the lpush is issued, not awaited, and the
\* handler returns the response with the upstream status.    index.ts:834-844, 695
LogAndRespond(q) == [q EXCEPT !.status = q.upStatus, !.body = "upstream", !.pc = "perf_push"]

\* An exception leaves the handler: the framework answers 500.
Throw(q) == [q EXCEPT !.status = 500, !.body = "error", !.pc = "done"]

\* modelName = body.model || "unknown", of a POST with a JSON body; "unknown"
\* without one.                                                   index.ts:773-776
ModelName(k) == IF k.method = "POST" /\ k.json THEN k.model ELSE "unknown"

\* Variant of IsModelsFastPath without a fast path.
IsModelsFastPath_never(path, method) == FALSE

\* if (path === "models" && request.method === "GET")                 index.ts:740
IsModelsFastPath(path, method) == path = "models" /\ method = "GET"

\* Entry of the handler up to its first awaited operation.        index.ts:735-770
\* OPENROUTER_API_KEY is validated non-blank at boot (index.ts:312-317), so the
\* CONFIG_MISSING return of line 737 is not taken here.
Start(r) ==
  /\ req[r].pc = "idle"
  \* request ids are interchangeable: they are used in order
  /\ \A t \in Reqs : t < r => req[t].pc # "idle"
  /\ traffic = "admin" => r <= MaxAdminReq
  /\ traffic \in StreamTraffic => r <= MaxStreamReq
  /\ traffic \in {"any", "admin", "resolve", "models"} =>
       \A t \in Reqs \ {r} : req[t].pc \in {"idle", "done"}
  /\ \E k \in RequestKinds, rep \in Deployed :
       \* replicas are interchangeable: request r is routed to one of the first r
       /\ rep <= r
       /\ LET path == IF k.models THEN "models" ELSE "chat/completions"
              fast == IsModelsFastPath(path, k.method)
              q == [req[r] EXCEPT !.rep = rep, !.method = k.method, !.json = k.json,
                                  !.startAt = now,
                                  !.path = path, !.hdr = k.user,
                                  !.modelName = ModelName(k),
                                  \* the fast path never reads the identity headers
                                  !.user = IF fast THEN NoUser ELSE k.user]
          IN req' = [req EXCEPT ![r] =
                 IF fast THEN [q EXCEPT !.pc = "models_fetch"]
                 ELSE IF q.user # NoUser THEN [q EXCEPT !.pc = "ensure_insert"]
                 ELSE AfterIdentity(q, UserCacheOf(rep), GroupCacheOf(rep),
                                    PolicyCacheOf(rep), day)]
  /\ UNCHANGED <<ctlVars, day, dbVars, cacheVars, redisVars, auditVars, systemLogs, worker,
                 faults>>

\* Variant of EnsureInsert with ON CONFLICT (id) DO UPDATE: the row is reset.
EnsureInsert_upsert(r) ==
  /\ req[r].pc = "ensure_insert"
  /\ IF policies["default"] = NoRow
       THEN /\ UNCHANGED users
            /\ req' = [req EXCEPT ![r] = Throw(@)]
       ELSE /\ users' = [users EXCEPT ![req[r].user] = [is_active |-> 1, policy_id |-> "default"]]
            /\ req' = [req EXCEPT ![r].pc = "ensure_select"]
  /\ UNCHANGED <<ctlVars, day, scnVars, policies, groupPolicies, webuiGroups, cacheVars, redisVars,
                 auditVars, systemLogs, worker, faults>>

\* ensureUserExists, first statement: INSERT ... ON CONFLICT (id) DO NOTHING.
\*                                                                    index.ts:502
EnsureInsert(r) ==
  /\ req[r].pc = "ensure_insert"
  /\ IF users[req[r].user] # NoRow
       THEN /\ UNCHANGED users
            /\ req' = [req EXCEPT ![r].pc = "ensure_select"]
     \* users.policy_id REFERENCES policies(id)
     ELSE IF policies["default"] = NoRow
       THEN /\ UNCHANGED users
            /\ req' = [req EXCEPT ![r] = Throw(@)]
       ELSE /\ users' = [users EXCEPT ![req[r].user] = [is_active |-> 1, policy_id |-> "default"]]
            /\ req' = [req EXCEPT ![r].pc = "ensure_select"]
  /\ UNCHANGED <<ctlVars, day, scnVars, policies, groupPolicies, webuiGroups, cacheVars, redisVars,
                 auditVars, systemLogs, worker, faults>>

\* ensureUserExists, second statement: SELECT, cacheSet; then the handler goes on.
\*                                                                index.ts:503-504
EnsureSelect(r) ==
  /\ req[r].pc = "ensure_select"
  /\ LET q == req[r]
         found == users[q.user] # NoRow
         uc == IF found THEN [userCache EXCEPT ![q.rep][q.user] = users[q.user]]
               ELSE userCache
         at == IF found THEN cacheSet(cacheAt, q.rep, "user", q.user) ELSE cacheAt
     IN /\ userCache' = uc
        /\ cacheAt' = at
        /\ req' = [req EXCEPT ![r] =
                     AfterIdentity(q, cacheGet(uc[q.rep], at[q.rep].user, NoRow),
                                   GroupCacheOf(q.rep), PolicyCacheOf(q.rep), day)]
  /\ UNCHANGED <<ctlVars, day, dbVars, groupCache, policyCache, redisVars, auditVars,
                 systemLogs, worker, faults>>

\* getUserGroups on a miss: the UI datastore answers and the list is cached, or
\* the query throws and the list is [] (not cached).              index.ts:468-482
CAGroupsDb(r) ==
  /\ req[r].pc = "ca_groups_db"
  /\ \E ok \in BOOLEAN :
       LET q == req[r]
           groups == IF ok THEN webuiGroups[q.user] ELSE {}
       IN /\ groupCache' = IF ok THEN [groupCache EXCEPT ![q.rep][q.user] = Entry(groups)]
                           ELSE groupCache
          /\ cacheAt' = IF ok THEN cacheSet(cacheAt, q.rep, "group", q.user) ELSE cacheAt
          /\ req' = [req EXCEPT ![r] =
                       GotGroups([q EXCEPT !.groups = groups, !.trace = @ \cup {"groups"}],
                                 PolicyCacheOf(q.rep), day)]
  /\ UNCHANGED <<ctlVars, day, dbVars, userCache, policyCache, redisVars, auditVars,
                 systemLogs, worker, faults>>

\* Variant of GroupPolicyCandidates with ORDER BY priority ASC.
GroupPolicyCandidates_lowest(groups) ==
  LET rows == {gp \in groupPolicies :
                 gp.group_name \in groups /\ PolicyRow(policies, gp.policy_id) # NoRow}
  IN {gp \in rows : \A other \in rows : other.priority >= gp.priority}

\* The rows the query of resolveEffectivePolicy may return first: group_policies
\* joined with policies, group_name in groups, ORDER BY priority DESC LIMIT 1.
\*                                                                index.ts:512-518
GroupPolicyCandidates(groups) ==
  LET rows == {gp \in groupPolicies :
                 gp.group_name \in groups /\ PolicyRow(policies, gp.policy_id) # NoRow}
  IN {gp \in rows : \A other \in rows : other.priority <= gp.priority}

\* resolveEffectivePolicy, the awaited query and its result.       index.ts:512-524
CAResolveDb(r) ==
  /\ req[r].pc = "ca_resolve_db"
  /\ LET q == [req[r] EXCEPT !.trace = @ \cup {"groupmap"}]
         cands == GroupPolicyCandidates(q.groups)
     IN IF cands = {}
          THEN req' = [req EXCEPT ![r] =
                         GotPolicyId(q, q.cuser.policy_id, PolicyCacheOf(q.rep), day)]
          ELSE \E gp \in cands :
                 req' = [req EXCEPT ![r] =
                           GotPolicyId(q, gp.policy_id, PolicyCacheOf(q.rep), day)]
  /\ UNCHANGED <<ctlVars, day, dbVars, cacheVars, redisVars, auditVars, systemLogs, worker,
                 faults>>

\* getPolicyCached on a miss: SELECT, cacheSet when a row came back.
\*                                                                index.ts:496-498
CAPolicyDb(r) ==
  /\ req[r].pc = "ca_policy_db"
  /\ LET q == req[r]
         p == PolicyRow(policies, q.pid)
     IN /\ policyCache' = IF p # NoRow THEN [policyCache EXCEPT ![q.rep][q.pid] = p]
                          ELSE policyCache
        /\ cacheAt' = IF p # NoRow THEN cacheSet(cacheAt, q.rep, "policy", q.pid) ELSE cacheAt
        /\ req' = [req EXCEPT ![r] = GotPolicy(q, p, day)]
  /\ UNCHANGED <<ctlVars, day, dbVars, userCache, groupCache, redisVars, auditVars,
                 systemLogs, worker, faults>>

\* redis.mget(dailyKey, monthlyKey), the two comparisons, and the handler's
\* reaction to the result.                                index.ts:541-553, 778-780
CAMget(r) ==
  /\ req[r].pc = "ca_mget"
  /\ ConnFree(req[r].rep, r)
  /\ LET q0 == req[r]
         d == ReadCounter(kv, DailyKey(q0.user, q0.kday))
         m == ReadCounter(kv, MonthlyKey(q0.user, q0.kday))
         q == [q0 EXCEPT !.rdDaily = d, !.rdMonthly = m, !.trace = @ \cup {"counters"}]
         verdict == QuotaVerdict(q.policy, d, m)
     IN req' = [req EXCEPT ![r] = IF verdict = "allowed" THEN Allow(q) ELSE Deny(q, verdict)]
  /\ UNCHANGED <<ctlVars, day, dbVars, cacheVars, redisVars, auditVars, systemLogs, worker,
                 faults>>

\* ------------------------------------------------- upstream and processUsage
\* if (!upstreamResponse.ok) writeSystemLog("warn", ...)          index.ts:798-804
LogNon2xx(logs, status) ==
  IF status >= 200 /\ status < 300 THEN logs
  ELSE writeSystemLog(logs, "warn", "Upstream returned non-2xx")

\* processUsage is called with a user: the keys and the total are computed and
\* the five commands are issued.                                  index.ts:556-563
CallProcessUsage(q, model, usage, today) ==
  [q EXCEPT !.total = UsageTotal(usage), !.kday = today, !.puStep = 1,
            !.puFailed = FALSE, !.puModel = model, !.pc = "pu"]

\* The non-streaming branch after the body was read.              index.ts:831-844
NonStreamBranch(q, resp, today) ==
  IF resp.ctype # "json" THEN Throw(q)              \* upstreamResponse.json() throws
  ELSE IF resp.usage # NoUsage /\ q.user # NoUser
    \* respData.model || modelName
    THEN CallProcessUsage(q, IF resp.model # "" THEN resp.model ELSE q.modelName,
                          resp.usage, today)
  ELSE LogAndRespond(q)

\* The response arrived: streaming or not.                        index.ts:806-845
OnResponse(q, resp, today) ==
  IF resp.ctype = "sse"
    \* the Response is returned with the upstream status; start() has run the
    \* generator up to its first reader.read()
    THEN [q EXCEPT !.stream = TRUE, !.status = resp.status, !.body = "upstream",
                   !.up = resp.chunks, !.upEnd = resp.ends, !.locked = TRUE,
                   !.spc = "read", !.pc = "stream"]
    ELSE NonStreamBranch(q, resp, today)

\* await fetch(...): one upstream call; it throws or answers.     index.ts:793-804
Fetch(r) ==
  /\ req[r].pc = "fetch"
  /\ LET q == [DropCheckLocals(req[r]) EXCEPT !.upstream = @ + 1]
     IN \/ /\ req' = [req EXCEPT ![r] = Throw(q)]
           /\ UNCHANGED systemLogs
        \/ \E resp \in UpstreamResponses :
             /\ systemLogs' = [systemLogs EXCEPT ![q.rep] = LogNon2xx(@, resp.status)]
             /\ req' = [req EXCEPT ![r] =
                          OnResponse([q EXCEPT !.upStatus = resp.status], resp, day)]
  /\ UNCHANGED <<ctlVars, day, dbVars, cacheVars, redisVars, auditVars, worker, faults>>

\* GET /v1/models: fetch, logRequestPerformance, respond.         index.ts:740-759
ModelsFetch(r) ==
  /\ req[r].pc = "models_fetch"
  /\ LET q == [req[r] EXCEPT !.upstream = @ + 1]
     IN \/ req' = [req EXCEPT ![r] = Throw(q)]
        \/ \E st \in {200, 500} :
             req' = [req EXCEPT ![r] = LogAndRespond([q EXCEPT !.upStatus = st])]
  /\ UNCHANGED <<ctlVars, day, dbVars, cacheVars, redisVars, auditVars, systemLogs, worker, faults>>

\* The UsageEvent processUsage pushes; ts stands for the push instant.
\*                                                                index.ts:568-572
UsageEvent(q, r) ==
  [user_id |-> q.user, model |-> q.puModel, total_tokens |-> q.total,
   ts |-> <<r, q.nUsage>>,
   \* history: the position of the push among all pushes onto usage_queue
   seq |-> 1 + SumOver([t \in Reqs |-> req[t].usagePushed], Reqs)]

\* Effect of the step-th command of processUsage on the string keys: INCRBY of
\* the daily key, then of the monthly key, by the same total.     index.ts:564-565
PUKeys(store, step, user, kday, total) ==
  IF step = 1 THEN IncrBy(store, DailyKey(user, kday), total)
  ELSE IF step = 2 THEN IncrBy(store, MonthlyKey(user, kday), total)
  ELSE store

\* EXPIRE of the daily key, then of the monthly key: sets a TTL on a key that
\* exists.                                                        index.ts:566-567
PUTtl(expiring, store, step, user, kday) ==
  LET k == IF step = 3 THEN DailyKey(user, kday) ELSE MonthlyKey(user, kday)
  IN IF step \in {3, 4} /\ k \in DOMAIN store THEN expiring \cup {k} ELSE expiring

\* Variant of PUQueue that pushes at the right end.
PUQueue_rightPush(queue, step, event) == IF step = 5 THEN Append(queue, event) ELSE queue

\* LPUSH usage_queue: the event goes to the left end.                 index.ts:568
PUQueue(queue, step, event) == IF step = 5 THEN <<event>> \o queue ELSE queue

\* After the Promise.all of processUsage settled.  In a stream the rejection is
\* swallowed by the inner try/catch; in the non-streaming branch it is not
\* caught, else logRequestPerformance follows.         index.ts:720-723, 832-834
AfterUsage(q) ==
  IF q.stream THEN [q EXCEPT !.nUsage = @ + 1, !.pc = "stream"]
  ELSE IF q.puFailed THEN Throw(q)
  ELSE LogAndRespond(q)

\* Redis runs the next of the five commands of processUsage, or rejects it.
\*                                                                index.ts:563-573
ProcessUsageStep(r) ==
  /\ req[r].pc = "pu"
  /\ ConnFree(req[r].rep, r)
  /\ \E ok \in BOOLEAN :
       LET q == req[r]
           step == q.puStep
           q1 == [q EXCEPT !.puStep = step + 1,
                           !.puFailed = @ \/ ~ok,
                           !.redisFailed = @ \/ ~ok,
                           !.usagePushed = IF ok /\ step = 5 THEN @ + 1 ELSE @]
       IN /\ ok \/ faults < MaxFaults
          /\ faults' = IF ok THEN faults ELSE faults + 1
          /\ kv' = IF ok THEN PUKeys(kv, step, q.user, q.kday, q.total) ELSE kv
          /\ ttl' = IF ok THEN PUTtl(ttl, kv, step, q.user, q.kday) ELSE ttl
          /\ usage_queue' = IF ok THEN PUQueue(usage_queue, step, UsageEvent(q, r))
                            ELSE usage_queue
          /\ req' = [req EXCEPT ![r] =
                       IF step = 5 THEN DropUsageLocals(AfterUsage(q1)) ELSE q1]
  /\ UNCHANGED <<ctlVars, day, dbVars, cacheVars, request_perf_queue, auditVars, systemLogs, worker>>

\* ------------------------------------------------ the streamed body, in text
\* The text of a chunk is a sequence of pieces: "NL" is one line feed, "data: "
\* the field prefix, " " blank space; a JSON text is one piece, of which "{" is
\* no valid JSON.
USAGE1 == [total_tokens |-> 1, prompt_tokens |-> 0, completion_tokens |-> 0]

\* JSON.parse of the JSON texts upstream sends: objects with or without a model
\* and a usage field.                                                index.ts:721
Json ==
  [J_um |-> [model |-> "m-up", usage |-> USAGE1],
   J_u  |-> [model |-> "", usage |-> USAGE1],
   J_m  |-> [model |-> "m-up", usage |-> NoUsage]]

Blank == {"NL", " "}

\* String.prototype.trim on a text.                                  index.ts:718
RECURSIVE trimStart(_)
trimStart(s) == IF s # <<>> /\ Head(s) \in Blank THEN trimStart(Tail(s)) ELSE s

RECURSIVE trimEnd(_)
trimEnd(s) ==
  IF s # <<>> /\ s[Len(s)] \in Blank THEN trimEnd(SubSeq(s, 1, Len(s) - 1)) ELSE s

trimText(s) == trimEnd(trimStart(s))

\* buffer.includes("\n\n") and buffer.indexOf("\n\n")            index.ts:713-714
SepAt(s, i) == i < Len(s) /\ s[i] = "NL" /\ s[i + 1] = "NL"
includesSep(s) == \E i \in 1..Len(s) : SepAt(s, i)
indexOfSep(s) == CHOOSE i \in 1..Len(s) : SepAt(s, i) /\ \A j \in 1..(i - 1) : ~SepAt(s, j)

\* part = buffer.slice(0, idx); buffer = buffer.slice(idx + 2)    index.ts:715-716
FirstPart(s) == SubSeq(s, 1, indexOfSep(s) - 1)
AfterFirstPart(s) == SubSeq(s, indexOfSep(s) + 2, Len(s))

NoCall == [call |-> FALSE, model |-> "", usage |-> NoUsage]

\* What the loop body does with one part: the processUsage call it makes, if
\* any.  JSON.parse throws on a text that is no JSON; the catch swallows it.
\*                                                                index.ts:717-725
InspectPart(part) ==
  IF part = <<>> \/ Head(part) # "data: " THEN NoCall
  ELSE LET dataStr == trimText(Tail(part))
       IN IF dataStr = <<>> \/ dataStr = <<"[DONE]">> THEN NoCall
          ELSE IF Len(dataStr) # 1 \/ dataStr[1] \notin DOMAIN Json THEN NoCall
          ELSE LET data == Json[dataStr[1]]
               IN IF data.usage = NoUsage THEN NoCall
                  \* processUsage(userId, data.model || "", data.usage)
                  ELSE [call |-> TRUE, model |-> data.model, usage |-> data.usage]

\* Variant of enqueue that puts the chunk in front.
enqueue_inFront(queue, chunk) == <<chunk>> \o queue

\* controller.enqueue(chunk)                                         index.ts:812
enqueue(queue, chunk) == Append(queue, chunk)

\* Variant of releaseLock that keeps the lock.
releaseLock_kept(q) == q

\* reader.releaseLock()                                              index.ts:729
releaseLock(q) == [q EXCEPT !.locked = FALSE]

\* The generator leaves its try block and start() its own: the reader is
\* released and logRequestPerformance is called with isStream: true.
\*                                                          index.ts:729, 814-826
Finally(q, how) == [releaseLock(q) EXCEPT !.ended = how, !.spc = "", !.pc = "perf_push"]

\* await reader.read() settles.  A chunk is yielded to the for-await loop, which
\* enqueues it downstream before the generator goes on to inspect it; once the
\* client is gone the stream may be cancelled already and enqueue throws.  At the
\* end of the body the loop breaks and the stream is closed; a failed read
\* leaves through both finally blocks.                       index.ts:707-709, 812
StreamRead(r) ==
  /\ req[r].pc = "stream" /\ req[r].spc = "read"
  /\ LET q == req[r]
     IN IF q.up # <<>>
          THEN LET got == [q EXCEPT !.up = Tail(@), !.rd = Append(@, Head(q.up))]
               IN \/ req' = [req EXCEPT ![r] =
                              [got EXCEPT !.down = enqueue(@, Head(q.up)), !.spc = "inspect"]]
                  \/ /\ q.client = "gone"
                     /\ req' = [req EXCEPT ![r] = Finally(got, "cancelled")]
          ELSE req' = [req EXCEPT ![r] =
                         Finally(q, IF q.upEnd = "end" THEN "closed" ELSE "errored")]
  /\ UNCHANGED <<ctlVars, day, dbVars, cacheVars, redisVars, auditVars, systemLogs, worker, faults>>

\* Variant of decodeInto that keeps only the text of the latest chunk.
decodeInto_latest(buffer, chunk) == chunk

\* buffer += decoder.decode(value, { stream: true })                 index.ts:712
decodeInto(buffer, chunk) == buffer \o chunk

\* decoder.decode(value, { stream: true }) never throws (the decoder is not
\* fatal); buffer += text.                                       index.ts:711-712
StreamDecode(r) ==
  /\ req[r].pc = "stream" /\ req[r].spc = "inspect"
  /\ LET q == req[r]
     IN req' = [req EXCEPT ![r] = [q EXCEPT !.buf = decodeInto(@, q.rd[Len(q.rd)]),
                                           !.spc = "events"]]
  /\ UNCHANGED <<ctlVars, day, dbVars, cacheVars, redisVars, auditVars, systemLogs, worker, faults>>

\* One turn of while (buffer.includes("\n\n")): the first part leaves the
\* buffer and is inspected; processUsage returns at once without a user.
\*                                                           index.ts:713-726, 556
StreamEvent(r) ==
  /\ req[r].pc = "stream" /\ req[r].spc = "events"
  /\ LET q == req[r]
     IN IF ~includesSep(q.buf) THEN req' = [req EXCEPT ![r].spc = "read"]
        ELSE LET do == InspectPart(FirstPart(q.buf))
                 q1 == [q EXCEPT !.buf = AfterFirstPart(q.buf)]
             IN req' = [req EXCEPT ![r] =
                          IF do.call /\ q.user # NoUser
                            THEN CallProcessUsage(q1, do.model, do.usage, day)
                            ELSE q1]
  /\ UNCHANGED <<ctlVars, day, dbVars, cacheVars, redisVars, auditVars, systemLogs, worker, faults>>

\* The client closes its connection while the response is streamed.
ClientDisconnect(r) ==
  /\ req[r].stream /\ req[r].pc \in {"stream", "pu"} /\ req[r].client = "open"
  /\ req' = [req EXCEPT ![r].client = "gone"]
  /\ UNCHANGED <<ctlVars, day, dbVars, cacheVars, redisVars, auditVars, systemLogs, worker, faults>>

\* streamWithUsageTracking read an SSE event that carries a usage object.
\*                                                                index.ts:717-723
StreamUsage(r) ==
  /\ req[r].pc = "stream"
  /\ req[r].nUsage < MaxStreamUsage
  /\ \E usage \in UsageInputs :
       req' = [req EXCEPT ![r] =
                 IF req[r].user = NoUser THEN [req[r] EXCEPT !.nUsage = @ + 1]
                 ELSE CallProcessUsage(req[r], "m-up", usage, day)]
  /\ UNCHANGED <<ctlVars, day, dbVars, cacheVars, redisVars, auditVars, systemLogs, worker, faults>>

\* The stream ended or the upstream read threw: finally, logRequestPerformance.
\*                                                     index.ts:708, 729, 814-826
StreamEnd(r) ==
  /\ req[r].pc = "stream"
  /\ req' = [req EXCEPT ![r] = Finally(@, "closed")]
  /\ UNCHANGED <<ctlVars, day, dbVars, cacheVars, redisVars, auditVars, systemLogs, worker, faults>>

\* The RequestLog payload of logRequestPerformance.               index.ts:684-694
PerfPayload(q, r) ==
  [user_id |-> q.user, status |-> q.upStatus, is_stream |-> q.stream, started_at |-> r]

\* redis.lpush("request_perf_queue", ...) runs, or is rejected and the catch
\* writes the system log.                                         index.ts:695-697
PerfPush(r) ==
  /\ req[r].pc = "perf_push"
  /\ ConnFree(req[r].rep, r)
  /\ \E ok \in BOOLEAN :
       LET q == req[r]
       IN /\ ok \/ faults < MaxFaults
          /\ faults' = IF ok THEN faults ELSE faults + 1
          /\ request_perf_queue' = IF ok THEN <<PerfPayload(q, r)>> \o request_perf_queue
                                   ELSE request_perf_queue
          /\ systemLogs' = IF ok THEN systemLogs
                           ELSE [systemLogs EXCEPT ![q.rep] =
                                   writeSystemLog(@, "error", "Failed to enqueue request performance")]
          /\ req' = [req EXCEPT ![r] =
                       [q EXCEPT !.pc = "done",
                                 !.redisFailed = @ \/ ~ok,
                                 !.perfPushed = IF ok THEN @ + 1 ELSE @]]
  /\ UNCHANGED <<ctlVars, day, dbVars, cacheVars, kv, ttl, usage_queue, auditVars, worker>>

\* The UTC date changes.                   new Date() at index.ts:538 and 558
Tick ==
  /\ traffic = "any"
  /\ day < MaxDay
  /\ day' = day + 1
  /\ UNCHANGED <<ctlVars, dbVars, cacheVars, redisVars, auditVars, systemLogs, req, worker, faults>>

\* ------------------------------------------------------- background worker
\* RPOP: the right end of the list leaves it.                         index.ts:623
RPopItem(queue) == queue[Len(queue)]
RPopRest(queue) == SubSeq(queue, 1, Len(queue) - 1)

\* Where the loop goes once a batch is written (or was empty): from the usage
\* batch to draining request_perf_queue, from the perf batch to the sleep or to
\* the next iteration.                                            index.ts:642-653
AfterUsageBatch(w) == [w EXCEPT !.usageBatch = <<>>, !.pc = "pop_perf"]

AfterPerfBatch(w) ==
  [w EXCEPT !.perfBatch = <<>>, !.drained = FALSE,
            !.pc = IF w.drained THEN "pop_usage" ELSE "sleep"]

\* Variant of WorkerCatch in which the exception ends the loop.
WorkerCatch_dying(w) ==
  [w EXCEPT !.usageBatch = <<>>, !.perfBatch = <<>>, !.drained = FALSE, !.pc = "dead"]

\* catch (e): writeSystemLog, 1 s backoff; the batches of the iteration are gone
\* with its locals.                                               index.ts:654-658
WorkerCatch(w) ==
  [w EXCEPT !.usageBatch = <<>>, !.perfBatch = <<>>, !.drained = FALSE, !.pc = "backoff"]

\* drainQueue("usage_queue", 100): one rpop of the loop.            index.ts:620-628
WorkerPopUsage(rep) ==
  /\ rep \in Deployed
  /\ worker[rep].pc = "pop_usage"
  /\ ConnFree(rep, 0)
  /\ LET w == worker[rep]
     IN \/ /\ IF usage_queue = <<>>
                THEN /\ worker' = [worker EXCEPT ![rep] =
                                     IF w.usageBatch = <<>> THEN AfterUsageBatch(w)
                                     ELSE [w EXCEPT !.pc = "insert_usage"]]
                     /\ UNCHANGED usage_queue
                ELSE /\ usage_queue' = RPopRest(usage_queue)
                     /\ worker' = [worker EXCEPT ![rep] =
                          [w EXCEPT !.usageBatch = Append(@, RPopItem(usage_queue)),
                                    !.drained = TRUE,
                                    !.pc = IF Len(w.usageBatch) + 1 = WORKER_BATCH
                                             THEN "insert_usage" ELSE "pop_usage"]]
           /\ UNCHANGED <<systemLogs, faults>>
        \* the rpop is rejected: drainQueue throws into the catch of the loop
        \/ /\ faults < MaxFaults
           /\ faults' = faults + 1
           /\ systemLogs' = [systemLogs EXCEPT ![rep] =
                               writeSystemLog(@, "error", "Background worker error")]
           /\ worker' = [worker EXCEPT ![rep] = WorkerCatch(w)]
           /\ UNCHANGED usage_queue
  /\ UNCHANGED <<ctlVars, day, dbVars, cacheVars, kv, ttl, request_perf_queue, auditVars, req>>

\* INSERT INTO usage_logs of the next item of the batch, or the insert throws.
\*                                                                 index.ts:635-640
WorkerInsertUsage(rep) ==
  /\ rep \in Deployed
  /\ worker[rep].pc = "insert_usage"
  /\ LET w == worker[rep]
     IN \/ /\ usage_logs' = Append(usage_logs, Head(w.usageBatch))
           /\ worker' = [worker EXCEPT ![rep] =
                IF Len(w.usageBatch) = 1 THEN AfterUsageBatch(w)
                ELSE [w EXCEPT !.usageBatch = Tail(@)]]
           /\ UNCHANGED <<systemLogs, faults>>
        \/ /\ faults < MaxFaults
           /\ faults' = faults + 1
           /\ systemLogs' = [systemLogs EXCEPT ![rep] =
                               writeSystemLog(@, "error", "Background worker error")]
           /\ worker' = [worker EXCEPT ![rep] = WorkerCatch(w)]
           /\ UNCHANGED usage_logs
  /\ UNCHANGED <<ctlVars, day, dbVars, cacheVars, redisVars, request_logs, req>>

\* drainQueue("request_perf_queue", 100): one rpop of the loop.  index.ts:620-628, 642
WorkerPopPerf(rep) ==
  /\ rep \in Deployed
  /\ worker[rep].pc = "pop_perf"
  /\ ConnFree(rep, 0)
  /\ LET w == worker[rep]
     IN \/ /\ IF request_perf_queue = <<>>
                THEN /\ worker' = [worker EXCEPT ![rep] =
                                     IF w.perfBatch = <<>> THEN AfterPerfBatch(w)
                                     ELSE [w EXCEPT !.pc = "insert_perf"]]
                     /\ UNCHANGED request_perf_queue
                ELSE /\ request_perf_queue' = RPopRest(request_perf_queue)
                     /\ worker' = [worker EXCEPT ![rep] =
                          [w EXCEPT !.perfBatch = Append(@, RPopItem(request_perf_queue)),
                                    !.drained = TRUE,
                                    !.pc = IF Len(w.perfBatch) + 1 = WORKER_BATCH
                                             THEN "insert_perf" ELSE "pop_perf"]]
           /\ UNCHANGED <<systemLogs, faults>>
        \* the rpop is rejected: drainQueue throws into the catch of the loop
        \/ /\ faults < MaxFaults
           /\ faults' = faults + 1
           /\ systemLogs' = [systemLogs EXCEPT ![rep] =
                               writeSystemLog(@, "error", "Background worker error")]
           /\ worker' = [worker EXCEPT ![rep] = WorkerCatch(w)]
           /\ UNCHANGED request_perf_queue
  /\ UNCHANGED <<ctlVars, day, dbVars, cacheVars, kv, ttl, usage_queue, auditVars, req>>

\* INSERT INTO request_logs of the next item of the batch, or the insert throws.
\*                                                                 index.ts:643-649
WorkerInsertPerf(rep) ==
  /\ rep \in Deployed
  /\ worker[rep].pc = "insert_perf"
  /\ LET w == worker[rep]
     IN \/ /\ request_logs' = Append(request_logs, Head(w.perfBatch))
           /\ worker' = [worker EXCEPT ![rep] =
                IF Len(w.perfBatch) = 1 THEN AfterPerfBatch(w)
                ELSE [w EXCEPT !.perfBatch = Tail(@)]]
           /\ UNCHANGED <<systemLogs, faults>>
        \/ /\ faults < MaxFaults
           /\ faults' = faults + 1
           /\ systemLogs' = [systemLogs EXCEPT ![rep] =
                               writeSystemLog(@, "error", "Background worker error")]
           /\ worker' = [worker EXCEPT ![rep] = WorkerCatch(w)]
           /\ UNCHANGED request_logs
  /\ UNCHANGED <<ctlVars, day, dbVars, cacheVars, redisVars, usage_logs, req>>

\* The 1 s sleep of an idle iteration and the 1 s backoff after an exception
\* are over: the loop runs its next iteration.                 index.ts:651-653, 657
WorkerWake(rep) ==
  /\ rep \in Deployed
  /\ worker[rep].pc \in {"sleep", "backoff"}
  /\ worker' = [worker EXCEPT ![rep].pc = "pop_usage"]
  /\ UNCHANGED <<ctlVars, day, dbVars, cacheVars, redisVars, auditVars, systemLogs, req, faults>>

\* ----------------------------------------------------------- admin guard
\* onBeforeHandle of the /admin group: auth !== ADMIN_API_KEY -> 401.
\*                                                                index.ts:850-853
Authorized_anyKey(rep, key) == TRUE

Authorized(rep, key) == key = runtime[rep]["ADMIN_API_KEY"]

\* What callers send: in the runs about the guard any key, otherwise the key
\* the replica is configured with.
KeySent(rep, key) == traffic = "auth" \/ key = runtime[rep]["ADMIN_API_KEY"]

\* --------------------------------------------- boot and runtime configuration
proxyVars == <<day, dbVars, cacheVars, redisVars, auditVars, req, worker>>

\* The replicas whose subscriber connection is subscribed to the channel.
Subscribed == {rep \in Replicas : boot[rep].pc = "up"}

\* ensureConfigStore, one key per statement:
\* INSERT ... VALUES (key, process.env[key] || "") ON CONFLICT (key) DO NOTHING.
InsertIfAbsent(rows, key, value) ==
  IF rows[key] = NoConfigRow THEN [rows EXCEPT ![key] = value] ELSE rows

BootEnsure(rep) ==
  /\ boot[rep].pc = "ensure"
  /\ LET key == CONFIG_KEYS[boot[rep].idx]
     IN system_config' = InsertIfAbsent(system_config, key, procEnv[rep][key])
  /\ boot' = [boot EXCEPT ![rep] =
                IF boot[rep].idx = Len(CONFIG_KEYS) THEN [pc |-> "load", idx |-> 0]
                ELSE [pc |-> "ensure", idx |-> boot[rep].idx + 1]]
  /\ UNCHANGED <<proxyVars, systemLogs, faults, procEnv, runtime, conn, reload, cfgOp, adm>>

\* loadRuntimeConfigFromDb at boot; a validation error ends the process.
BootLoad(rep) ==
  /\ boot[rep].pc = "load"
  /\ IF validateConfigMap(system_config) # {}
       THEN /\ boot' = [boot EXCEPT ![rep] = [pc |-> "crashed", idx |-> 0]]
            /\ UNCHANGED <<procEnv, runtime>>
       ELSE /\ boot' = [boot EXCEPT ![rep] = [pc |-> "subscribe", idx |-> 0]]
            /\ procEnv' = [procEnv EXCEPT ![rep] = EnvFromDb(procEnv[rep], system_config)]
            /\ runtime' = [runtime EXCEPT ![rep] = refreshRuntimeConfig(procEnv'[rep])]
  /\ UNCHANGED <<proxyVars, systemLogs, faults, system_config, conn, reload, cfgOp, adm>>

\* startConfigSubscriber: new Redis(process.env.REDIS_URL), subscribe.
BootSubscribe(rep) ==
  /\ boot[rep].pc = "subscribe"
  /\ conn' = [conn EXCEPT ![rep].subscriber = procEnv[rep]["REDIS_URL"]]
  /\ boot' = [boot EXCEPT ![rep] = [pc |-> "up", idx |-> 0]]
  /\ UNCHANGED <<proxyVars, systemLogs, faults, system_config, procEnv, runtime, reload, cfgOp, adm>>

BootStep(rep) ==
  \/ BootEnsure(rep)
  \/ BootLoad(rep)
  \/ BootSubscribe(rep)

\* POST /admin/config on a listening replica, by a caller that presents the
\* admin key: SELECT the current rows, merge, validate (index.ts:979-996).
CfgRead(o) ==
  /\ cfgOp[o].pc = "idle"
  /\ IF o = 1 THEN TRUE ELSE cfgOp[o - 1].pc # "idle"
  /\ traffic = "auth" => (o <= MaxAuthCfgOps /\ adm.pc = "idle")
  /\ \E rep \in Replicas, updates \in CfgBodies, key \in AdminKeysSent :
       /\ boot[rep].pc = "up"
       /\ KeySent(rep, key) /\ Authorized(rep, key)
       /\ LET merged == MergeUpdates(system_config, updates)
              missing == validateConfigMap(merged)
          IN cfgOp' = [cfgOp EXCEPT ![o] =
               IF missing # {}
                 THEN [IdleCfgOp EXCEPT !.pc = "done", !.rep = rep, !.updates = updates,
                                        !.key = key, !.status = 400, !.error = missing]
                 ELSE [IdleCfgOp EXCEPT !.pc = "persist", !.rep = rep, !.updates = updates,
                                        !.key = key, !.merged = merged, !.idx = 1]]
  /\ UNCHANGED <<proxyVars, systemLogs, faults, system_config, procEnv, runtime, conn, boot, reload, adm>>

\* persistConfig(merged): one upsert per entry of the merged map, each its own
\* statement, in the order of the entries.
CfgPersist(o) ==
  /\ cfgOp[o].pc = "persist"
  /\ LET key == CONFIG_KEYS[cfgOp[o].idx]
     IN system_config' = [system_config EXCEPT ![key] = cfgOp[o].merged[key]]
  /\ cfgOp' = [cfgOp EXCEPT ![o] =
                 IF cfgOp[o].idx = Len(CONFIG_KEYS)
                   THEN [@ EXCEPT !.pc = "load", !.idx = 0]
                   ELSE [@ EXCEPT !.idx = @ + 1]]
  /\ UNCHANGED <<proxyVars, systemLogs, faults, procEnv, runtime, conn, boot, reload, adm>>

\* loadRuntimeConfigFromDb of the handler: the SELECT.
CfgLoadSelect(o) ==
  /\ cfgOp[o].pc = "load"
  /\ cfgOp' = [cfgOp EXCEPT ![o].pc = "apply", ![o].snap = system_config]
  /\ UNCHANGED <<proxyVars, systemLogs, faults, system_config, procEnv, runtime, conn, boot, reload, adm>>

\* ... and what follows the SELECT: validate, process.env, refreshRuntimeConfig;
\* then redis.publish is sent.
CfgLoadApply(o) ==
  /\ cfgOp[o].pc = "apply"
  /\ LET rep == cfgOp[o].rep
     IN IF validateConfigMap(cfgOp[o].snap) # {}
          THEN /\ cfgOp' = [cfgOp EXCEPT ![o].pc = "done", ![o].status = 500,
                                         ![o].snap = NoConfig]
               /\ UNCHANGED <<procEnv, runtime>>
          ELSE /\ cfgOp' = [cfgOp EXCEPT ![o].pc = "publish", ![o].snap = NoConfig]
               /\ procEnv' = [procEnv EXCEPT ![rep] = EnvFromDb(procEnv[rep], cfgOp[o].snap)]
               /\ runtime' = [runtime EXCEPT ![rep] = refreshRuntimeConfig(procEnv'[rep])]
  /\ UNCHANGED <<proxyVars, systemLogs, faults, system_config, conn, boot, reload, adm>>

\* redis.publish(CONFIG_SYNC_CHANNEL, ...) over the replica's Redis client, the
\* log entry and the response. Pub/sub keeps nothing for a subscriber that is
\* not connected, and a message on its way to a subscriber can be lost.
CfgPublish(o) ==
  /\ cfgOp[o].pc = "publish"
  /\ LET rep == cfgOp[o].rep
         listening == {s \in Subscribed : conn[s].subscriber = conn[rep].redis}
     IN /\ \E got \in SUBSET listening :
             /\ IF got = listening THEN UNCHANGED faults
                ELSE faults < MaxFaults /\ faults' = faults + 1
             /\ reload' = [s \in Replicas |->
                             IF s \in got
                               THEN [reload[s] EXCEPT ![o] = [pc |-> "select", snap |-> NoConfig]]
                               ELSE reload[s]]
        /\ systemLogs' = [systemLogs EXCEPT ![rep] =
                            writeSystemLog(@, "info", "Config updated via admin API")]
  /\ cfgOp' = [cfgOp EXCEPT ![o].pc = "done", ![o].status = 200]
  /\ UNCHANGED <<proxyVars, system_config, procEnv, runtime, conn, boot, adm>>

CfgStep(o) ==
  \/ CfgRead(o)
  \/ CfgPersist(o)
  \/ CfgLoadSelect(o)
  \/ CfgLoadApply(o)
  \/ CfgPublish(o)

\* The subscriber's message handler: loadRuntimeConfigFromDb, the SELECT ...
ReloadSelect(rep, o) ==
  /\ reload[rep][o].pc = "select"
  /\ reload' = [reload EXCEPT ![rep][o] = [pc |-> "apply", snap |-> system_config]]
  /\ UNCHANGED <<proxyVars, systemLogs, faults, system_config, procEnv, runtime, conn, boot, cfgOp, adm>>

\* ... and what follows it; the catch logs "Config reload failed".
ReloadApply(rep, o) ==
  /\ reload[rep][o].pc = "apply"
  /\ IF validateConfigMap(reload[rep][o].snap) # {}
       THEN /\ reload' = [reload EXCEPT ![rep][o] = [pc |-> "failed", snap |-> NoConfig]]
            /\ systemLogs' = [systemLogs EXCEPT ![rep] =
                                writeSystemLog(@, "error", "Config reload failed")]
            /\ UNCHANGED <<procEnv, runtime>>
       ELSE /\ reload' = [reload EXCEPT ![rep][o] = [pc |-> "done", snap |-> NoConfig]]
            /\ procEnv' = [procEnv EXCEPT ![rep] = EnvFromDb(procEnv[rep], reload[rep][o].snap)]
            /\ runtime' = [runtime EXCEPT ![rep] = refreshRuntimeConfig(procEnv'[rep])]
            /\ systemLogs' = [systemLogs EXCEPT ![rep] =
                                writeSystemLog(@, "info", "Config reloaded from pub/sub")]
  /\ UNCHANGED <<proxyVars, faults, system_config, conn, boot, cfgOp, adm>>

ReloadStep(rep, o) ==
  \/ ReloadSelect(rep, o)
  \/ ReloadApply(rep, o)

\* ------------------------------------------------------------ admin routes
\* The /admin requests of a run come one after the other from a caller that
\* presents the admin key (onBeforeHandle, index.ts:850-853).
AdmTargets == Users
PolicyBodies ==
  {[daily_token_limit |-> DailyLimit, monthly_token_limit |-> MonthlyLimit],
   [daily_token_limit |-> UNLIMITED, monthly_token_limit |-> UNLIMITED]}

\* users.policy_id and group_policies.policy_id REFERENCES policies(id): a
\* written value must be NULL or the id of an existing row ...
ForeignKeyOk(pid) == pid = NullPolicy \/ PolicyRow(policies, pid) # NoRow

\* ... and a referenced row cannot be deleted (ON DELETE NO ACTION).
Referenced(pid) ==
  \/ \E u \in Users : users[u] # NoRow /\ users[u].policy_id = pid
  \/ \E gp \in groupPolicies : gp.policy_id = pid

\* if (params.id === 'default') return { success: false, ... }    index.ts:901
CannotDelete_nothing(id) == FALSE

CannotDelete(id) == id = "default"

AdmBegin(key, rep, kind, id) ==
  [n |-> adm.n + 1, pc |-> "respond", rep |-> rep, kind |-> kind, id |-> id, key |-> key,
   success |-> FALSE, status |-> 0, at |-> adm.at]

\* The statement threw: the framework answers 500.
AdmThrow(a) == [a EXCEPT !.pc = "idle", !.status = 500]

AdmFree ==
  /\ adm.pc = "idle" /\ traffic \in {"admin", "auth", "cache"}
  /\ adm.n < (IF traffic = "auth" THEN MaxAuthOps
             ELSE IF traffic = "cache" THEN MaxCacheOps ELSE MaxAdminOps)
  \* the caller of the runs about the guard sends one request after the other
  /\ traffic = "auth" => \A o \in CfgOps : cfgOp[o].pc \in {"idle", "done"}

\* PATCH /admin/users/:id with {is_active} or {policy_id}: the UPDATE.
\*                                                                index.ts:880-887
PatchUser(rep, key) ==
  /\ AdmFree /\ KeySent(rep, key) /\ Authorized(rep, key)
  /\ \E u \in AdmTargets :
       \/ \E active \in BOOLEAN :
            /\ users' = IF users[u] = NoRow THEN users
                        ELSE [users EXCEPT ![u].is_active = IF active THEN 1 ELSE 0]
            /\ adm' = AdmBegin(key, rep, "patch_user", u)
       \/ \E pid \in PolicyIds \cup {NullPolicy} :
            IF users[u] # NoRow /\ ~ForeignKeyOk(pid)
              THEN /\ adm' = AdmThrow(AdmBegin(key, rep, "patch_user", u))
                   /\ UNCHANGED users
              ELSE /\ users' = IF users[u] = NoRow THEN users
                               ELSE [users EXCEPT ![u].policy_id = pid]
                   /\ adm' = AdmBegin(key, rep, "patch_user", u)
  /\ UNCHANGED <<scnVars, day, policies, groupPolicies, webuiGroups, cacheVars, redisVars,
                 auditVars, systemLogs, req, worker, faults, system_config, procEnv,
                 runtime, conn, boot, reload, cfgOp>>

\* POST /admin/policies: the upsert.                              index.ts:891-896
PostPolicy(rep, key) ==
  /\ AdmFree /\ KeySent(rep, key) /\ Authorized(rep, key)
  /\ \E id \in PolicyIds, row \in PolicyBodies :
       /\ policies' = [policies EXCEPT ![id] = row]
       /\ adm' = AdmBegin(key, rep, "post_policy", id)
  /\ UNCHANGED <<scnVars, day, users, groupPolicies, webuiGroups, cacheVars, redisVars,
                 auditVars, systemLogs, req, worker, faults, system_config, procEnv,
                 runtime, conn, boot, reload, cfgOp>>

\* DELETE /admin/policies/:id: the guard and the DELETE.          index.ts:900-902
DeletePolicy(rep, key) ==
  /\ AdmFree /\ KeySent(rep, key) /\ Authorized(rep, key)
  /\ \E id \in PolicyIds :
       IF CannotDelete(id)
         THEN /\ adm' = [AdmBegin(key, rep, "delete_policy", id) EXCEPT !.pc = "idle", !.status = 200]
              /\ UNCHANGED policies
       ELSE IF Referenced(id)
         THEN /\ adm' = AdmThrow(AdmBegin(key, rep, "delete_policy", id))
              /\ UNCHANGED policies
         ELSE /\ policies' = [policies EXCEPT ![id] = NoRow]
              /\ adm' = AdmBegin(key, rep, "delete_policy", id)
  /\ UNCHANGED <<scnVars, day, users, groupPolicies, webuiGroups, cacheVars, redisVars,
                 auditVars, systemLogs, req, worker, faults, system_config, procEnv,
                 runtime, conn, boot, reload, cfgOp>>

\* POST /admin/group-policies: the upsert on group_name.          index.ts:868-875
PostGroupPolicy(rep, key) ==
  /\ AdmFree /\ KeySent(rep, key) /\ Authorized(rep, key)
  /\ \E g \in Groups, pid \in PolicyIds :
       IF ~ForeignKeyOk(pid)
         THEN /\ adm' = AdmThrow(AdmBegin(key, rep, "post_group_policy", g))
              /\ UNCHANGED groupPolicies
         ELSE /\ groupPolicies' = {gp \in groupPolicies : gp.group_name # g}
                     \cup {[group_name |-> g, policy_id |-> pid, priority |-> 0]}
              /\ adm' = AdmBegin(key, rep, "post_group_policy", g)
  /\ UNCHANGED <<scnVars, day, users, policies, webuiGroups, cacheVars, redisVars,
                 auditVars, systemLogs, req, worker, faults, system_config, procEnv,
                 runtime, conn, boot, reload, cfgOp>>

\* DELETE /admin/group-policies/:name.                            index.ts:876-879
DeleteGroupPolicy(rep, key) ==
  /\ AdmFree /\ KeySent(rep, key) /\ Authorized(rep, key)
  /\ \E g \in Groups :
       /\ groupPolicies' = {gp \in groupPolicies : gp.group_name # g}
       /\ adm' = AdmBegin(key, rep, "delete_group_policy", g)
  /\ UNCHANGED <<scnVars, day, users, policies, webuiGroups, cacheVars, redisVars,
                 auditVars, systemLogs, req, worker, faults, system_config, procEnv,
                 runtime, conn, boot, reload, cfgOp>>

\* What follows the awaited statement: userCache.delete / policyCache.delete on
\* the replica that handles the request, and { success: true }.
AdminRespond ==
  /\ adm.pc = "respond"
  /\ userCache' = IF adm.kind = "patch_user"
                    THEN [userCache EXCEPT ![adm.rep][adm.id] = NoRow]
                    ELSE userCache
  /\ policyCache' = IF adm.kind \in {"post_policy", "delete_policy"}
                      THEN [policyCache EXCEPT ![adm.rep][adm.id] = NoRow]
                      ELSE policyCache
  /\ cacheAt' = IF adm.kind = "patch_user"
                  THEN cacheDelete(cacheAt, adm.rep, "user", adm.id)
                ELSE IF adm.kind \in {"post_policy", "delete_policy"}
                  THEN cacheDelete(cacheAt, adm.rep, "policy", adm.id)
                ELSE cacheAt
  /\ adm' = [adm EXCEPT !.pc = "idle", !.success = TRUE, !.status = 200, !.at = now]
  /\ UNCHANGED <<dbVars, day, groupCache, redisVars, auditVars, systemLogs, req, worker,
                 faults, system_config, procEnv, runtime, conn, boot, reload, cfgOp>>

\* The routes of the /admin group that change something.
AdminRoutes ==
  {"patch_user", "post_policy", "delete_policy", "post_group_policy",
   "delete_group_policy", "post_config"}

\* onBeforeHandle answers 401 "Unauthorized": the route handler is not entered.
AdminUnauthorized(rep, key) ==
  /\ AdmFree /\ KeySent(rep, key) /\ ~Authorized(rep, key)
  /\ \E route \in AdminRoutes :
       adm' = [AdmBegin(key, rep, route, "none") EXCEPT !.pc = "idle", !.status = 401]
  /\ UNCHANGED <<proxyVars, systemLogs, faults, system_config, procEnv, runtime, conn,
                 boot, reload, cfgOp>>

AdminStep(rep, key) ==
  \/ PatchUser(rep, key)
  \/ PostPolicy(rep, key)
  \/ DeletePolicy(rep, key)
  \/ PostGroupPolicy(rep, key)
  \/ DeleteGroupPolicy(rep, key)

\* ---------------------------------------------------------- specifications
RequestStep(r) ==
  \/ Start(r)
  \/ ModelsFetch(r)
  \/ EnsureInsert(r)
  \/ EnsureSelect(r)
  \/ CAGroupsDb(r)
  \/ CAResolveDb(r)
  \/ CAPolicyDb(r)
  \/ CAMget(r)
  \/ Fetch(r)
  \/ ProcessUsageStep(r)
  \/ StreamUsage(r)
  \/ StreamEnd(r)
  \/ PerfPush(r)

\* The request path: the requests and the clock.
Next ==
  \/ \E r \in Reqs : RequestStep(r)
  \/ Tick

Spec == Init /\ [][Next]_vars

\* The steps of a request that produces usage.
UsageRequestStep(r) ==
  \/ Start(r)
  \/ EnsureInsert(r)
  \/ EnsureSelect(r)
  \/ CAGroupsDb(r)
  \/ CAPolicyDb(r)
  \/ CAMget(r)
  \/ Fetch(r)
  \/ ProcessUsageStep(r)
  \/ PerfPush(r)

WorkerStep(rep) ==
  \/ WorkerPopUsage(rep)
  \/ WorkerInsertUsage(rep)
  \/ WorkerPopPerf(rep)
  \/ WorkerInsertPerf(rep)
  \/ WorkerWake(rep)

\* The logging pipeline: producers and the workers of all replicas.
NextWorker ==
  \/ \E r \in Reqs : UsageRequestStep(r)
  \/ \E rep \in Replicas : WorkerStep(rep)

SpecWorker == InitWorker /\ [][NextWorker]_vars

\* The event loop of a running process keeps serving its worker: completed
\* awaits and due timers are eventually handled.
InitWorkerLive ==
  \/ InitWorker /\ traffic = "usage1"
  \/ /\ traffic = "drain"
     /\ users = [u \in Users |-> [is_active |-> 1, policy_id |-> "p1"]]
     /\ webuiGroups = [u \in Users |-> {}]
     /\ day = 1 /\ policies = InitPolicies /\ groupPolicies = InitGroupPolicies
     /\ userCache = [rep \in Replicas |-> [u \in Users |-> NoRow]]
     /\ groupCache = [rep \in Replicas |-> [u \in Users |-> NoEntry]]
     /\ policyCache = [rep \in Replicas |-> [p \in PolicyIds |-> NoRow]]
     /\ cacheAt = [rep \in Replicas |-> NoExpiry]
     /\ kv = <<>> /\ ttl = {}
     /\ usage_queue = [i \in 1..MaxReq |->
                         [user_id |-> "u1", model |-> "m-up", total_tokens |-> 1, ts |-> <<0, 0>>,
                          seq |-> MaxReq + 1 - i]]
     /\ request_perf_queue = [i \in 1..MaxReq |->
                                [user_id |-> "u1", status |-> 200, is_stream |-> FALSE,
                                 started_at |-> MaxReq + 1 - i]]
     /\ usage_logs = <<>> /\ request_logs = <<>>
     /\ systemLogs = [rep \in Replicas |-> <<[level |-> "info", message |-> "Middleware started"]>>]
     /\ req = [r \in Reqs |-> IdleReq]
     /\ worker = [rep \in Replicas |-> IdleWorker]
     /\ faults = 0
     /\ ident = IdleIdent /\ view = IdleView /\ now = 0
     /\ InitCtlIdle

SpecWorkerLive ==
  /\ InitWorkerLive /\ [][NextWorker]_vars
  /\ \A rep \in Replicas : WF_vars(WorkerStep(rep))
  \* Redis executes the commands it was sent
  /\ \A r \in Reqs : WF_vars(ProcessUsageStep(r))

\* Configuration: the replicas boot, from an empty system_config or over the
\* rows of an earlier deployment, and the admin posts config changes.
InitConfig ==
  /\ traffic = "config"
  /\ users = [u \in Users |-> NoRow]
  /\ webuiGroups = [u \in Users |-> {}]
  /\ InitProxy
  /\ system_config \in {NoConfig, RowsOfEarlierDeployment}
  /\ procEnv = [rep \in Replicas |-> EnvAtStart]
  /\ runtime = [rep \in Replicas |-> refreshRuntimeConfig(EnvAtStart)]
  /\ conn = [rep \in Replicas |-> [redis |-> EnvAtStart["REDIS_URL"],
                                   subscriber |-> NotConnected]]
  /\ boot = [rep \in Replicas |-> [pc |-> "ensure", idx |-> 1]]
  /\ reload = [rep \in Replicas |-> [o \in CfgOps |-> IdleReload]]
  /\ cfgOp = [o \in CfgOps |-> IdleCfgOp]
  /\ adm = IdleAdm

NextConfig ==
  \/ \E rep \in Replicas : BootStep(rep)
  \/ \E o \in CfgOps : CfgStep(o)
  \/ \E rep \in Replicas, o \in CfgOps : ReloadStep(rep, o)

SpecConfig == InitConfig /\ [][NextConfig]_vars

\* The admin routes next to the request path: a user seen for the first time
\* or assigned to 'p1', requests that carry no usage.
InitAdmin ==
  /\ traffic = "admin"
  /\ \E s \in {[row |-> NoRow, groups |-> Groups],
               [row |-> [is_active |-> 1, policy_id |-> "p1"], groups |-> {}]} :
       /\ users = [u \in Users |-> s.row]
       /\ webuiGroups = [u \in Users |-> s.groups]
  /\ InitCommon

AdminRequestStep(r) ==
  \/ Start(r)
  \/ EnsureInsert(r)
  \/ EnsureSelect(r)
  \/ CAGroupsDb(r)
  \/ CAResolveDb(r)
  \/ CAPolicyDb(r)
  \/ CAMget(r)
  \/ Fetch(r)
  \/ PerfPush(r)

NextAdmin ==
  \/ \E r \in Reqs : AdminRequestStep(r)
  \/ \E rep \in Replicas, key \in AdminKeysSent : AdminStep(rep, key)
  \/ AdminRespond

SpecAdmin == InitAdmin /\ [][NextAdmin]_vars

\* Policy resolution: a request of a user who has a row, over every group
\* mapping the admin routes can leave behind. group_name is the primary key of
\* group_policies; a POST /admin/group-policies without policy_id stores NULL.
ResolveGroups == {"g1", "g2"}
Priorities == {0, 1}
GroupPolicyTables ==
  {rows \in SUBSET [group_name : ResolveGroups,
                    policy_id : PolicyIds \cup {NullPolicy},
                    priority : Priorities] :
     \A a, b \in rows : a.group_name = b.group_name => a = b}

InitResolve ==
  /\ traffic = "resolve"
  /\ \E pid \in PolicyIds : users = [u \in Users |-> [is_active |-> 1, policy_id |-> pid]]
  /\ \E gs \in SUBSET ResolveGroups : webuiGroups = [u \in Users |-> gs]
  /\ groupPolicies \in GroupPolicyTables
  /\ ident = IdleIdent /\ view = IdleView /\ now = 0
  /\ InitRuntime
  /\ InitCtlIdle

NextResolve == \E r \in Reqs : AdminRequestStep(r)

SpecResolve == InitResolve /\ [][NextResolve]_vars

\* The admin guard: a booted deployment, callers that send any key, config
\* changes that replace ADMIN_API_KEY.
InitAuth ==
  /\ traffic = "auth"
  /\ users = [u \in Users |-> [is_active |-> 1, policy_id |-> "p1"]]
  /\ webuiGroups = [u \in Users |-> {}]
  /\ InitCommon

NextAuth ==
  \/ \E rep \in Replicas, key \in AdminKeysSent : AdminUnauthorized(rep, key)
  \/ \E rep \in Replicas, key \in AdminKeysSent : AdminStep(rep, key)
  \/ AdminRespond
  \/ \E o \in CfgOps : CfgStep(o)
  \/ \E rep \in Replicas, o \in CfgOps : ReloadStep(rep, o)

SpecAuth == InitAuth /\ [][NextAuth]_vars

\* Identity resolution over the headers a request can carry.
InitIdentity ==
  /\ traffic = "identity"
  /\ users = [u \in Users |-> NoRow]
  /\ webuiGroups = [u \in Users |-> {}]
  /\ groupPolicies = InitGroupPolicies
  /\ InitRuntime
  /\ InitCtlIdle
  /\ \E h \in IdentityInputs : ident = [pc |-> "received", headers |-> h, userId |-> Null]
  /\ view = IdleView /\ now = 0

NextIdentity == ResolveIdentity

SpecIdentity == InitIdentity /\ [][NextIdentity]_vars

\* GET /v1/models among the requests of a user who has no row yet, is inactive,
\* or uses up the daily quota with the first request.
InitModels ==
  /\ traffic = "models"
  /\ \E row \in {NoRow, [is_active |-> 0, policy_id |-> "default"]} :
       users = [u \in Users |-> row]
  /\ webuiGroups = [u \in Users |-> {}]
  /\ InitCommon

ModelsRequestStep(r) ==
  \/ Start(r)
  \/ ModelsFetch(r)
  \/ EnsureInsert(r)
  \/ EnsureSelect(r)
  \/ CAGroupsDb(r)
  \/ CAPolicyDb(r)
  \/ CAMget(r)
  \/ Fetch(r)
  \/ ProcessUsageStep(r)
  \/ PerfPush(r)

NextModels == \E r \in Reqs : ModelsRequestStep(r)

SpecModels == InitModels /\ [][NextModels]_vars

\* One request whose answer is streamed, read chunk by chunk.
InitStream ==
  /\ traffic = "stream"
  /\ users = [u \in Users |-> [is_active |-> 1, policy_id |-> "p1"]]
  /\ webuiGroups = [u \in Users |-> {}]
  /\ InitCommon

StreamRequestStep(r) ==
  \/ Start(r)
  \/ EnsureInsert(r)
  \/ EnsureSelect(r)
  \/ CAGroupsDb(r)
  \/ CAPolicyDb(r)
  \/ CAMget(r)
  \/ Fetch(r)
  \/ StreamRead(r)
  \/ StreamDecode(r)
  \/ StreamEvent(r)
  \/ ClientDisconnect(r)
  \/ ProcessUsageStep(r)
  \/ PerfPush(r)

NextStream == \E r \in Reqs : StreamRequestStep(r)

SpecStream == InitStream /\ [][NextStream]_vars

\* The same with the event loop of the process serving the stream: a read that
\* settled, a reply of Redis and a resumed generator are eventually handled, and
\* the upstream body eventually delivers its next chunk, ends or fails.  The
\* client is free to stay or to go.
InitStreamLive ==
  /\ traffic = "stream1"
  /\ users = [u \in Users |-> [is_active |-> 1, policy_id |-> "p1"]]
  /\ webuiGroups = [u \in Users |-> {}]
  /\ InitCommon

StreamProgress(r) ==
  \/ StreamRead(r)
  \/ StreamDecode(r)
  \/ StreamEvent(r)
  \/ ProcessUsageStep(r)
  \/ PerfPush(r)

SpecStreamLive ==
  /\ InitStreamLive /\ [][NextStream]_vars
  /\ \A r \in Reqs : WF_vars(StreamProgress(r))

\* GET /admin/config over the rows system_config can hold.
InitMask ==
  /\ traffic = "mask"
  /\ users = [u \in Users |-> NoRow]
  /\ webuiGroups = [u \in Users |-> {}]
  /\ groupPolicies = InitGroupPolicies
  /\ ident = IdleIdent
  /\ InitRuntime
  /\ InitCtlIdle
  /\ \E k \in ConfigKeySet, v \in ConfigTexts :
       view = [pc |-> "read", key |-> k, value |-> v, masked |-> <<>>]
  /\ now = 0

NextMask == MaskRow

SpecMask == InitMask /\ [][NextMask]_vars

\* ------------------------------------------------------ caches under races
\* The three per-process caches with the clock running: overlapping requests of
\* one user on 'default', one /admin request that changes the user or a policy,
\* and every awaited SELECT of the cached reads as a step of its own. A request
\* is followed up to the result of checkAccess: a 403, or the upstream fetch
\* being issued.

\* The entries of a cache that the clock reaching t leaves readable; the others
\* are deleted by the cacheGet that finds them, which is done here at once.
Unexpired(cache, expiresAt, miss, t) ==
  [k \in DOMAIN cache |-> IF t > expiresAt[k] THEN miss ELSE cache[k]]

UnexpiredAt(expiresAt, t) ==
  [k \in DOMAIN expiresAt |-> IF t > expiresAt[k] THEN 0 ELSE expiresAt[k]]

\* Time passes.
Tock ==
  /\ traffic = "cache" /\ now < MaxNow
  /\ now' = now + 1
  /\ userCache' = [rep \in Replicas |->
                     Unexpired(userCache[rep], cacheAt[rep].user, NoRow, now + 1)]
  /\ groupCache' = [rep \in Replicas |->
                      Unexpired(groupCache[rep], cacheAt[rep].group, NoEntry, now + 1)]
  /\ policyCache' = [rep \in Replicas |->
                       Unexpired(policyCache[rep], cacheAt[rep].policy, NoRow, now + 1)]
  /\ cacheAt' = [rep \in Replicas |->
                   [c \in {"user", "group", "policy"} |->
                      UnexpiredAt(cacheAt[rep][c], now + 1)]]
  /\ UNCHANGED <<traffic, ident, view, day, users, policies, groupPolicies, webuiGroups,
                 redisVars, auditVars, systemLogs, req, worker, faults, ctlVars>>

\* ensureUserExists: const user = await db.get("SELECT * FROM users WHERE id = $1").
\*                                                                    index.ts:503
EnsureQuery(r) ==
  /\ req[r].pc = "ensure_select"
  /\ req' = [req EXCEPT ![r].pc = "ensure_store", ![r].sel = users[req[r].user]]
  /\ UNCHANGED <<ctlVars, day, dbVars, cacheVars, redisVars, auditVars, systemLogs, worker,
                 faults>>

\* ensureUserExists resumes: if (user) cacheSet(userCache, ...); the handler
\* goes on to await request.json().                          index.ts:504, 772-775
EnsureStore(r) ==
  /\ req[r].pc = "ensure_store"
  /\ LET q == req[r]
         found == q.sel # NoRow
     IN /\ userCache' = IF found THEN [userCache EXCEPT ![q.rep][q.user] = q.sel]
                        ELSE userCache
        /\ cacheAt' = IF found THEN cacheSet(cacheAt, q.rep, "user", q.user) ELSE cacheAt
        /\ req' = [req EXCEPT ![r] = IF NeedsCheck(q) THEN [q EXCEPT !.pc = "body", !.sel = NoRow]
                                     ELSE ToFetch([q EXCEPT !.sel = NoRow])]
  /\ UNCHANGED <<ctlVars, day, dbVars, groupCache, policyCache, redisVars, auditVars,
                 systemLogs, worker, faults>>

\* body = await request.json() has resolved; checkAccess is entered and
\* getUserCached reads the user cache: a hit goes on, a miss awaits the SELECT.
\*                                                       index.ts:775-778, 485-488
ReadBody(r) ==
  /\ req[r].pc = "body"
  /\ LET q == req[r]
     IN req' = [req EXCEPT ![r] =
                  IF UserCacheOf(q.rep)[q.user] # NoRow
                    THEN checkAccess(q, UserCacheOf(q.rep), GroupCacheOf(q.rep),
                                     PolicyCacheOf(q.rep), day)
                    ELSE [q EXCEPT !.checked = TRUE, !.pc = "ca_user_db"]]
  /\ UNCHANGED <<ctlVars, day, dbVars, cacheVars, redisVars, auditVars, systemLogs, worker,
                 faults>>

\* getUserCached on a miss: the SELECT has returned, if (user) cacheSet, and
\* checkAccess goes on with the row.                              index.ts:488-490
CAUserDb(r) ==
  /\ req[r].pc = "ca_user_db"
  /\ LET q == req[r]
         row == users[q.user]
     IN /\ userCache' = IF row # NoRow THEN [userCache EXCEPT ![q.rep][q.user] = row]
                        ELSE userCache
        /\ cacheAt' = IF row # NoRow THEN cacheSet(cacheAt, q.rep, "user", q.user) ELSE cacheAt
        /\ req' = [req EXCEPT ![r] =
                     GotUser([q EXCEPT !.cuser = row, !.trace = @ \cup {"user"}],
                             GroupCacheOf(q.rep), PolicyCacheOf(q.rep), day)]
  /\ UNCHANGED <<ctlVars, day, dbVars, groupCache, policyCache, redisVars, auditVars,
                 systemLogs, worker, faults>>

\* getPolicyCached on a miss: const row = await db.get("SELECT * FROM policies
\* WHERE id = $1").                                                   index.ts:496
CAPolicyQuery(r) ==
  /\ req[r].pc = "ca_policy_db"
  /\ req' = [req EXCEPT ![r].pc = "ca_policy_store",
                        ![r].sel = PolicyRow(policies, req[r].pid)]
  /\ UNCHANGED <<ctlVars, day, dbVars, cacheVars, redisVars, auditVars, systemLogs, worker,
                 faults>>

\* getPolicyCached resumes: if (row) cacheSet(policyCache, ...); return row.
\*                                                                index.ts:497-498
CAPolicyStore(r) ==
  /\ req[r].pc = "ca_policy_store"
  /\ LET q == req[r]
         p == q.sel
     IN /\ policyCache' = IF p # NoRow THEN [policyCache EXCEPT ![q.rep][q.pid] = p]
                          ELSE policyCache
        /\ cacheAt' = IF p # NoRow THEN cacheSet(cacheAt, q.rep, "policy", q.pid) ELSE cacheAt
        /\ req' = [req EXCEPT ![r] = GotPolicy([q EXCEPT !.sel = NoRow], p, day)]
  /\ UNCHANGED <<ctlVars, day, dbVars, userCache, groupCache, redisVars, auditVars,
                 systemLogs, worker, faults>>

InitCache ==
  /\ traffic = "cache"
  /\ users = [u \in Users |-> [is_active |-> 1, policy_id |-> "default"]]
  /\ webuiGroups = [u \in Users |-> {}]
  /\ InitCommon

CacheRequestStep(r) ==
  \/ Start(r)
  \/ EnsureInsert(r)
  \/ EnsureQuery(r)
  \/ EnsureStore(r)
  \/ ReadBody(r)
  \/ CAUserDb(r)
  \/ CAGroupsDb(r)
  \/ CAPolicyQuery(r)
  \/ CAPolicyStore(r)
  \/ CAMget(r)

NextCache ==
  \/ \E r \in Reqs : CacheRequestStep(r)
  \/ \E rep \in Replicas, key \in AdminKeysSent : PatchUser(rep, key)
  \/ \E rep \in Replicas, key \in AdminKeysSent : PostPolicy(rep, key)
  \/ AdminRespond
  \/ Tock

SpecCache == InitCache /\ [][NextCache]_vars

\* ------------------------------------------------------- the system log
\* One process after boot, and callers of writeSystemLog: the n-th call after
\* "Middleware started" logs the message n, and the clock counts the calls.
LogMessage(n) == ToString(n)

WriteLog ==
  /\ traffic = "logs" /\ now < MaxWrites
  /\ now' = now + 1
  /\ systemLogs' = [systemLogs EXCEPT ![1] = writeSystemLog(@, "info", LogMessage(now + 1))]
  /\ UNCHANGED <<traffic, ident, view, day, users, policies, groupPolicies, webuiGroups,
                 cacheVars, redisVars, auditVars, req, worker, faults, ctlVars>>

InitLogs ==
  /\ traffic = "logs"
  /\ users = [u \in Users |-> NoRow]
  /\ webuiGroups = [u \in Users |-> {}]
  /\ InitCommon

NextLogs == WriteLog

SpecLogs == InitLogs /\ [][NextLogs]_vars

\* ================================================================ properties
\* checkAccess returned { allowed: false, reason } for the request.
DeniedByCheck(q) == q.checked /\ q.reason # ""

\* The client got 403 with the reason and nothing was sent upstream.
RefusedWith(q, reason) ==
  /\ q.pc = "done" /\ q.status = 403 /\ q.body = reason
  /\ q.reason = reason /\ ~q.allowed /\ q.upstream = 0

\* Request r completes the mget of its checkAccess in this step.
MgetStep(r) == req[r].pc = "ca_mget" /\ req'[r].pc # "ca_mget"

\* The counter the check of q is about has reached the positive limit.
DailyHit(q) ==
  /\ q.policy.daily_token_limit > 0
  /\ ReadCounter(kv, DailyKey(q.user, q.kday)) >= q.policy.daily_token_limit

MonthlyHit(q) ==
  /\ q.policy.monthly_token_limit > 0
  /\ ReadCounter(kv, MonthlyKey(q.user, q.kday)) >= q.policy.monthly_token_limit

\* No other request is under way: the requests are sequential.
Alone(r) == \A t \in Reqs \ {r} : req[t].pc \in {"idle", "done"}

\* C1 (as amended): when an identified POST JSON request has its counters read
\* and the daily counter has reached the positive daily limit of its policy, it
\* is refused with 403 and the daily reason; when the monthly counter has
\* reached the positive monthly limit and the daily limit is not hit as well, it
\* is refused with the monthly reason.
C1_LimitReachedRefused ==
  [][\A r \in Reqs : MgetStep(r) =>
       /\ DailyHit(req[r]) => RefusedWith(req'[r], DAILY_EXCEEDED)
       /\ (MonthlyHit(req[r]) /\ ~DailyHit(req[r])) => RefusedWith(req'[r], MONTHLY_EXCEEDED)]_vars

\* A POST request's usage was counted and a later request was refused for the
\* daily limit.
C1_Witness ==
  \E r, t \in Reqs :
    /\ RefusedWith(req[r], DAILY_EXCEEDED)
    /\ t # r /\ req[t].method = "POST" /\ req[t].pc = "done" /\ req[t].usagePushed > 0

\* C1 as stated: with sequential requests and no failure, a daily counter at
\* the limit gives the daily reason and a monthly counter at the limit gives the
\* monthly reason.
C1_AsStated ==
  [][\A r \in Reqs : (MgetStep(r) /\ Alone(r) /\ faults = 0) =>
       /\ DailyHit(req[r]) => RefusedWith(req'[r], DAILY_EXCEEDED)
       /\ MonthlyHit(req[r]) => RefusedWith(req'[r], MONTHLY_EXCEEDED)]_vars

\* C2: a request that checkAccess denies is answered 403 with the reason as its
\* body and ends there: nothing is sent upstream, the denying step leaves the
\* counters, their TTLs and both queues as they are, and the request takes no
\* further step.
C2_DeniedStops ==
  [][\A r \in Reqs :
       /\ DeniedByCheck(req'[r]) =>
            /\ RefusedWith(req'[r], req'[r].reason)
            /\ req'[r].usagePushed = 0 /\ req'[r].puStep = 0
       /\ (DeniedByCheck(req'[r]) /\ ~DeniedByCheck(req[r])) => UNCHANGED redisVars
       /\ DeniedByCheck(req[r]) => req'[r] = req[r]]_vars

\* A request was denied while the user's counters were above zero.
C2_Witness ==
  \E r \in Reqs :
    /\ DeniedByCheck(req[r]) /\ req[r].status = 403
    /\ ReadCounter(kv, MonthlyKey(req[r].user, 1)) > 0

\* C3 as stated: every request that has terminated (and met no Redis failure)
\* has pushed exactly one RequestLog payload.
C3_EveryTerminatedLogged ==
  \A r \in Reqs :
    (req[r].pc = "done" /\ ~req[r].redisFailed) => req[r].perfPushed = 1

\* C4 as stated: an identified request with a write method and a JSON
\* content-type that reached upstream was checked and allowed before.
C4_WritesChecked ==
  \A r \in Reqs :
    (/\ req[r].upstream > 0
     /\ req[r].method \in {"POST", "PUT", "PATCH", "DELETE"}
     /\ req[r].json /\ req[r].user # NoUser)
    => (req[r].checked /\ req[r].allowed)

\* checkAccess has just returned allowed for q (its locals are still there).
Admitted(q) == q.pc = "fetch" /\ q.checked /\ q.allowed

\* C5 (as amended): when checkAccess returns allowed, that evaluation has read
\* the user's row with its direct policy_id, has obtained the user's group list,
\* has read both counters, and has consulted the group mapping exactly when the
\* direct policy is 'default' and the group list is not empty.
C5_AllowedAfterReads ==
  \A r \in Reqs : Admitted(req[r]) =>
    /\ {"user", "groups", "counters"} \subseteq req[r].trace
    /\ req[r].cuser # NoRow
    /\ req[r].policy # NoRow
    /\ "groupmap" \in req[r].trace
         <=> (req[r].cuser.policy_id = "default" /\ req[r].groups # {})

\* A request was allowed after the group mapping gave its policy.
C5_Witness ==
  \E r \in Reqs :
    Admitted(req[r]) /\ "groupmap" \in req[r].trace /\ req[r].pid = "p1"

\* C5 as stated: allowed only after the row, the groups, the group mapping and
\* the counters were all read.
C5_AsStated ==
  \A r \in Reqs : Admitted(req[r]) =>
    {"user", "groups", "groupmap", "counters"} \subseteq req[r].trace

\* The user is on the policy 'default' and no group gives another one.
OnDefault(u) ==
  /\ users[u] # NoRow /\ users[u].policy_id = "default" /\ webuiGroups[u] = {}

\* C6 as stated: once the daily counter of a user on a limited policy is at the
\* limit, only requests that checkAccess had admitted add to it.
C6_OvershootOnlyByAdmitted ==
  [][\A r \in Reqs :
       (/\ req[r].pc = "pu" /\ req[r].puStep = 1
        /\ kv' # kv
        /\ OnDefault(req[r].user)
        /\ policies["default"].daily_token_limit > 0
        /\ ReadCounter(kv, DailyKey(req[r].user, req[r].kday))
             >= policies["default"].daily_token_limit)
       => (req[r].checked /\ req[r].allowed)]_vars

RECURSIVE SumTotals(_)
SumTotals(events) ==
  IF events = <<>> THEN 0 ELSE Head(events).total_tokens + SumTotals(Tail(events))

RECURSIVE SumDaily(_, _)
SumDaily(u, d) ==
  IF d = 0 THEN 0 ELSE ReadCounter(kv, DailyKey(u, d)) + SumDaily(u, d - 1)

\* All effects of every processUsage call for u are there, or none: the monthly
\* counter equals the daily counters of the month and the totals of the queued
\* events, and every counter carries a TTL.
UsageEffectsWhole(u) ==
  LET m == ReadCounter(kv, MonthlyKey(u, 1))
  IN /\ m = SumDaily(u, MaxDay)
     /\ m = SumTotals(SelectSeq(usage_queue, LAMBDA e : e.user_id = u))
     /\ \A d \in Days : DailyKey(u, d) \in DOMAIN kv => DailyKey(u, d) \in ttl
     /\ MonthlyKey(u, 1) \in DOMAIN kv => MonthlyKey(u, 1) \in ttl

\* The mget of some checkAccess can run now.
ReaderReady == \E t \in Reqs : req[t].pc = "ca_mget" /\ ConnFree(req[t].rep, t)

\* C8 as stated (no worker pops in Spec, so usage_queue holds every pushed
\* event): whenever a reader can read, and whenever no processUsage call is
\* under way, the effects of the calls are whole.
C8_UsageEffectsAtomic ==
  (ReaderReady \/ \A r \in Reqs : req[r].pc # "pu") => \A u \in Users : UsageEffectsWhole(u)

\* C9 as stated: a request that met a Redis failure after the upstream answered
\* still answers with the upstream status and body, and the failure is in the
\* system log of its replica.
C9_RedisFailureHarmless ==
  \A r \in Reqs :
    (req[r].pc = "done" /\ req[r].redisFailed) =>
      /\ req[r].status = req[r].upStatus /\ req[r].body = "upstream"
      /\ \E i \in 1..Len(systemLogs[req[r].rep]) : systemLogs[req[r].rep][i].level = "error"

\* C10 as stated, its safety half (SpecWorker): every pushed UsageEvent and
\* every pushed RequestLog payload is in its queue, in a worker's batch, or in
\* its table, once.
C10_NothingLost ==
  /\ SumOver([r \in Reqs |-> req[r].usagePushed], Reqs)
       = Len(usage_queue) + Len(usage_logs)
         + SumOver([rep \in Replicas |-> Len(worker[rep].usageBatch)], Replicas)
  /\ SumOver([r \in Reqs |-> req[r].perfPushed], Reqs)
       = Len(request_perf_queue) + Len(request_logs)
         + SumOver([rep \in Replicas |-> Len(worker[rep].perfBatch)], Replicas)

\* The events of s are in push order, oldest first.
PushOrder(s) == \A i, j \in 1..Len(s) : i < j => s[i].seq < s[j].seq

\* Every event of s was pushed before every event of t.
AllBefore(s, t) == \A i \in 1..Len(s), j \in 1..Len(t) : s[i].seq < t[j].seq

\* C11 (SpecWorker): usage_queue holds its events newest first from the left, so
\* the right-pop takes the oldest: what a worker holds or has inserted was
\* pushed before everything still queued, a batch is in push order, and with a
\* single worker the rows of usage_logs are in push order.
C11_Fifo ==
  /\ \A i, j \in 1..Len(usage_queue) : i < j => usage_queue[i].seq > usage_queue[j].seq
  /\ AllBefore(usage_logs, usage_queue)
  /\ \A rep \in Replicas :
       PushOrder(worker[rep].usageBatch) /\ AllBefore(worker[rep].usageBatch, usage_queue)
  /\ Deployed = {1} =>
       PushOrder(usage_logs) /\ AllBefore(usage_logs, worker[1].usageBatch)

\* A single worker has inserted the rows of two events.
C11_Witness == Deployed = {1} /\ Len(usage_logs) = 2

WorkerPcs == {"pop_usage", "insert_usage", "pop_perf", "insert_perf", "sleep", "backoff"}

\* C12 (SpecWorkerLive): a worker is always at a step of its loop; an exception
\* puts an error entry into the system log of its replica; after the backoff
\* the loop starts another iteration; and a queue that is not empty is
\* eventually empty again.
C12_WorkerNeverStops ==
  /\ [](\A rep \in Deployed : worker[rep].pc \in WorkerPcs)
  /\ [][\A rep \in Replicas :
          (worker[rep].pc # "backoff" /\ worker'[rep].pc = "backoff") =>
            /\ Len(systemLogs'[rep]) = Len(systemLogs[rep]) + 1
            /\ systemLogs'[rep][1] = [level |-> "error", message |-> "Background worker error"]]_vars
  /\ \A rep \in Replicas :
       (rep \in Deployed /\ worker[rep].pc = "backoff") ~> (worker[rep].pc = "pop_usage")
  /\ (usage_queue # <<>>) ~> (usage_queue = <<>>)
  /\ (request_perf_queue # <<>>) ~> (request_perf_queue = <<>>)

\* A worker that caught an exception is at the start of an iteration again.
C12_Witness ==
  \E rep \in Deployed :
    /\ worker[rep].pc = "pop_usage"
    /\ \E i \in 1..Len(systemLogs[rep]) :
         systemLogs[rep][i].message = "Background worker error"

\* Nothing of the configuration path is in flight: every POST /admin/config
\* has answered and every delivered message has been handled.
CfgAtRest ==
  /\ \A rep \in Replicas : boot[rep].pc \in {"up", "crashed"}
  /\ \A o \in CfgOps : cfgOp[o].pc \in {"idle", "done"}
  /\ \A rep \in Replicas, o \in CfgOps : reload[rep][o].pc \notin {"select", "apply"}

\* The POST /admin/config requests that were persisted and published.
Published == {o \in CfgOps : cfgOp[o].pc = "done" /\ cfgOp[o].status = 200}

\* C13: a replica that received the message of every published config write
\* and has handled them all reads, for every runtime key K, the value V that the
\* last write left in system_config, not an older one, also when the updates
\* and their reloads overlapped.
C13_ReceiversObserveLatest ==
  CfgAtRest =>
    \A rep \in Replicas :
      (Published # {} /\ \A o \in Published : reload[rep][o].pc = "done")
        => \A k \in RuntimeKeys : runtime[rep][k] = system_config[k]

\* C14: after the one config change of a run has been published and everything
\* has come to rest, every running replica whose subscriber is connected to the
\* Redis the change was published on uses the values of system_config, whether
\* or not the notification reached it.
C14_LostNotificationHealed ==
  (CfgAtRest /\ Published = {1} /\ cfgOp[2].pc = "idle") =>
    \A rep \in Replicas :
      (boot[rep].pc = "up" /\ conn[rep].subscriber = conn[cfgOp[1].rep].redis)
        => \A k \in RuntimeKeys : runtime[rep][k] = system_config[k]

\* The runtime values of the system_config states that a boot or one
\* POST /admin/config committed: the rows every boot ends with, and the merged
\* map each accepted POST persists.
CommittedRuntimes ==
  {refreshRuntimeConfig(EnvAtStart), refreshRuntimeConfig(RowsOfEarlierDeployment)}
    \cup {refreshRuntimeConfig(cfgOp[o].merged) :
            o \in {p \in CfgOps : cfgOp[p].merged # NoConfig}}

\* C15: on every replica the five runtime values always stem from one committed
\* system_config state, never from a mix of two.
C15_RuntimeFromOneCommit ==
  \A rep \in Replicas : runtime[rep] \in CommittedRuntimes

\* The required keys that a POST with this body would leave missing or blank.
Offending(o) ==
  LET merged == MergeUpdates(system_config, cfgOp'[o].updates)
  IN {k \in required : merged[k] = "" \/ merged[k] = NoConfigRow}

\* C16: a POST /admin/config whose merged map misses a required key answers
\* 400 with the list of those keys, and neither that step nor any later one of
\* the request writes a row, reloads a runtime or publishes a message.
C16_InvalidChangesNothing ==
  [][\A o \in CfgOps :
       /\ (cfgOp[o].pc = "idle" /\ cfgOp'[o].pc # "idle" /\ Offending(o) # {}) =>
            /\ cfgOp'[o].pc = "done"
            /\ cfgOp'[o].status = 400
            /\ cfgOp'[o].error = Offending(o)
            /\ UNCHANGED <<system_config, procEnv, runtime, reload, systemLogs>>
       /\ cfgOp[o].status = 400 => cfgOp'[o] = cfgOp[o]]_vars

C16_Witness ==
  \E o \in CfgOps :
    /\ cfgOp[o].pc = "done" /\ cfgOp[o].status = 400
    /\ cfgOp[o].error = {"LOG_MODE"}
    /\ system_config["LOG_MODE"] \notin {"", NoConfigRow}

\* C17: all eight recognized keys are required: a POST /admin/config that
\* leaves one of them blank is refused, so no row of system_config is ever
\* blank.
C17_NoBlankRow ==
  /\ \A k \in ConfigKeySet : system_config[k] # ""
  /\ \A o \in CfgOps :
       (\E k \in ConfigKeySet : cfgOp[o].merged[k] = "") => cfgOp[o].status = 400

\* C18: a replica that has booted, before any config request, runs on the rows
\* of system_config for every recognized key: rows that existed keep their
\* value, the runtime variables and process.env carry the row values, and the
\* Redis connections are opened with the REDIS_URL row; the environment counts
\* only where no row existed.
C18_RowBeatsEnvironment ==
  (\A o \in CfgOps : cfgOp[o].pc = "idle") =>
    \A rep \in Replicas :
      boot[rep].pc = "up" =>
        /\ system_config \in {EnvAtStart, RowsOfEarlierDeployment}
        /\ \A k \in ConfigKeySet : procEnv[rep][k] = system_config[k]
        /\ \A k \in RuntimeKeys : runtime[rep][k] = system_config[k]
        /\ conn[rep].subscriber = system_config["REDIS_URL"]
        /\ conn[rep].redis = system_config["REDIS_URL"]

\* C19: the policy 'default' exists in every state, and DELETE
\* /admin/policies/default answers success: false and changes no table and no
\* cache.
C19_DefaultImmortal ==
  /\ [](policies["default"] # NoRow)
  /\ [][(adm'.n # adm.n /\ adm'.kind = "delete_policy" /\ adm'.id = "default") =>
          /\ adm'.pc = "idle" /\ adm'.success = FALSE /\ adm'.status = 200
          /\ UNCHANGED <<users, policies, groupPolicies, cacheVars>>]_vars

C19_Witness ==
  /\ adm.kind = "delete_policy" /\ adm.id = "default" /\ adm.success = FALSE
  /\ adm.n = MaxAdminOps
  /\ policies["p1"] = NoRow
  /\ \E r \in Reqs : req[r].pc = "done" /\ req[r].status = 200

\* C20: every row of users has a policy_id that is the id of an existing
\* policy.
C20_UserPolicyResolves ==
  \A u \in Users :
    users[u] # NoRow => PolicyRow(policies, users[u].policy_id) # NoRow

\* The request has the outcome of resolveEffectivePolicy in hand.
Resolved(r) == req[r].pid # ""

\* C21: for a user without groups, or with a policy_id other than 'default',
\* resolveEffectivePolicy returns the user's policy_id and does not read
\* group_policies.
C21_DirectPolicy ==
  \A r \in Reqs :
    (Resolved(r) /\ (req[r].groups = {} \/ req[r].cuser.policy_id # "default")) =>
      /\ req[r].pid = req[r].cuser.policy_id
      /\ "groupmap" \notin req[r].trace

C21_Witness ==
  \E r \in Reqs :
    /\ Resolved(r) /\ req[r].pid = "p1" /\ req[r].cuser.policy_id = "p1"
    /\ req[r].groups = ResolveGroups
    /\ \E gp \in groupPolicies : gp.policy_id = "default" /\ gp.priority = 1

\* The rows a result of the resolution may come from: the rows with the highest
\* priority among the given ones.
Highest(rows) == {gp \in rows : \A other \in rows : other.priority <= gp.priority}

\* The rows of group_policies for the groups of request r.
Matching(r) == {gp \in groupPolicies : gp.group_name \in req[r].groups}

\* The request resolved the policy of a user on 'default' who has groups.
ViaGroups(r) ==
  Resolved(r) /\ req[r].cuser.policy_id = "default" /\ req[r].groups # {}

\* C22 as stated: for a user on 'default' with groups G the result is the
\* policy_id of a highest-priority row among the rows whose group_name is in G,
\* and 'default' when there is no such row.
C22_AsStated ==
  \A r \in Reqs :
    ViaGroups(r) =>
      IF Matching(r) = {} THEN req[r].pid = "default"
      ELSE \E gp \in Highest(Matching(r)) : req[r].pid = gp.policy_id

\* C22: for a user on 'default' with groups G the result is the policy_id of a
\* highest-priority row among the rows whose group_name is in G and whose
\* policy_id is the id of an existing policy, and 'default' when there is no
\* such row.
C22_HighestJoinedRow ==
  \A r \in Reqs :
    ViaGroups(r) =>
      LET joined == {gp \in Matching(r) : PolicyRow(policies, gp.policy_id) # NoRow}
      IN IF joined = {} THEN req[r].pid = "default"
         ELSE \E gp \in Highest(joined) : req[r].pid = gp.policy_id

C22_Witness ==
  \E r \in Reqs :
    /\ ViaGroups(r) /\ req[r].pid = "p1"
    /\ \E a, b \in Matching(r) :
         /\ a.priority = 1 /\ a.policy_id = NullPolicy
         /\ b.priority = 0 /\ b.policy_id = "p1"

\* The lexicographic order of the group names.
GroupRank(g) == IF g = "g1" THEN 1 ELSE 2

\* C23: when several matching rows share the highest priority, the row with the
\* lexicographically smallest group_name gives the result.
C23_TieBrokenByName ==
  \A r \in Reqs :
    ViaGroups(r) =>
      LET joined == {gp \in Matching(r) : PolicyRow(policies, gp.policy_id) # NoRow}
          top == Highest(joined)
      IN \A gp \in top :
           (\A other \in top : GroupRank(gp.group_name) <= GroupRank(other.group_name))
             => req[r].pid = gp.policy_id

\* C24: an /admin request whose x-admin-key is absent or differs from the
\* ADMIN_API_KEY the handling replica is configured with is answered 401 and
\* changes no table, cache, runtime config or pending reload; a route handler
\* is entered only with the configured key, also after a reload replaced it.
C24_AdminKeyGuards ==
  [][/\ adm'.n # adm.n =>
          IF adm'.key = runtime[adm'.rep]["ADMIN_API_KEY"]
            THEN adm'.status # 401
            ELSE /\ adm'.status = 401 /\ adm'.pc = "idle"
                 /\ UNCHANGED <<users, policies, groupPolicies, cacheVars, auditVars,
                                redisVars, system_config, procEnv, runtime, reload,
                                cfgOp, systemLogs>>
     /\ \A o \in CfgOps :
          (cfgOp[o].pc = "idle" /\ cfgOp'[o].pc # "idle") =>
            cfgOp'[o].key = runtime[cfgOp'[o].rep]["ADMIN_API_KEY"]]_vars

C24_Witness ==
  /\ cfgOp[1].status = 200 /\ cfgOp[1].key = "env"
  /\ "ADMIN_API_KEY" \in DOMAIN cfgOp[1].updates
  /\ adm.status = 401 /\ adm.key = "env" /\ adm.kind = "patch_user"
  /\ runtime[adm.rep]["ADMIN_API_KEY"] = "a"
  /\ adm.rep # cfgOp[1].rep

\* A non-empty string in lower case without surrounding whitespace.
Normalized(v) == IsStr(v) /\ v.core # "" /\ ~v.upper /\ ~v.padded

\* The normalized value of the first source that is present.
FirstPresent(h) ==
  LET jwt == IF h.authorization # Absent /\ h.authorization.scheme = "Bearer"
                  /\ h.authorization.token.kind = "json"
                  /\ h.authorization.token.data # Null
               THEN LET d == h.authorization.token.data
                    IN Or(d.email, Or(d.id, d.sub))
               ELSE Absent
      first == Or(h.email, Or(h.id, jwt))
  IN IF IsStr(first) /\ first.core # "" THEN trim(toLowerCase(first)) ELSE Null

\* C25: the resolved identity is none or a non-empty, lowercased, trimmed
\* string, for header and token sources alike; it is the normalized value of
\* the first present source.
C25_IdentityNormalized ==
  ident.pc = "resolved" =>
    /\ ident.userId = Null \/ Normalized(ident.userId)
    /\ ident.userId = FirstPresent(ident.headers)

\* ---------------------------------------------------------------------- C26
\* Request r is a GET /v1/models.
IsModelsRequest(q) == q.path = "models" /\ q.method = "GET" /\ q.pc # "idle"

\* The user the headers of q name is inactive or has used up the daily limit.
HeaderUserBarred(q) ==
  /\ q.hdr # NoUser /\ users[q.hdr] # NoRow
  /\ \/ users[q.hdr].is_active = 0
     \/ /\ users[q.hdr].policy_id = "default"
        /\ ReadCounter(kv, DailyKey(q.hdr, day)) >= DailyLimit

\* C26: a step of a GET /v1/models request, whatever identity its headers carry,
\* resolves no identity, creates no user row, runs no checkAccess, changes no
\* cache, counter, TTL or usage_queue entry and never answers 403; once upstream
\* has answered and the push is accepted, exactly one RequestLog payload with the
\* upstream status is on request_perf_queue for it.
C26_ModelsBypass ==
  [][\A r \in Reqs :
       (IsModelsRequest(req'[r]) /\ req'[r] # req[r]) =>
         /\ req'[r].user = NoUser
         /\ users' = users
         /\ ~req'[r].checked /\ req'[r].trace = {}
         /\ UNCHANGED <<cacheVars, kv, ttl, usage_queue>>
         /\ req'[r].status # 403
         /\ req'[r].usagePushed = 0
         /\ (req'[r].pc = "done" /\ req'[r].upStatus # 0 /\ ~req'[r].redisFailed) =>
              /\ req'[r].perfPushed = 1
              /\ req'[r].status = req'[r].upStatus
              /\ Len(request_perf_queue') = Len(request_perf_queue) + 1
              /\ request_perf_queue'[1].status = req'[r].upStatus
              /\ request_perf_queue'[1].user_id = NoUser]_vars

\* A GET /v1/models carrying the identity of a barred user was answered with the
\* upstream status and logged.
C26_Witness ==
  \E r \in Reqs :
    /\ IsModelsRequest(req[r]) /\ req[r].pc = "done"
    /\ HeaderUserBarred(req[r])
    /\ req[r].perfPushed = 1 /\ req[r].status = req[r].upStatus

\* ---------------------------------------------------------------------- C27
\* The generator and start() of request r have finished.
StreamOver(q) == q.stream /\ q.pc \in {"perf_push", "done"}

\* C27: while a response is streamed, the chunks enqueued downstream are the
\* chunks read from upstream, unaltered and in order; a chunk is downstream
\* already when the generator inspects it; and unless the client went away the
\* stream ends only when upstream has nothing more to deliver, whatever the
\* events hold and whether or not Redis rejected a command of processUsage.
C27_StreamVerbatim ==
  \A r \in Reqs :
    req[r].stream =>
      /\ req[r].ended # "cancelled" => req[r].down = req[r].rd
      /\ req[r].spc \in {"inspect", "events"} =>
           /\ Len(req[r].down) = Len(req[r].rd)
           /\ req[r].down[Len(req[r].down)] = req[r].rd[Len(req[r].rd)]
      /\ (StreamOver(req[r]) /\ req[r].ended # "cancelled") => req[r].up = <<>>

\* A stream of three chunks reached its end in full although one event was no
\* JSON and Redis rejected a command of processUsage for another.
C27_Witness ==
  \E r \in Reqs :
    /\ req[r].pc = "done" /\ req[r].stream /\ req[r].ended = "closed"
    /\ Len(req[r].down) = MaxChunks /\ req[r].down = req[r].rd
    /\ \E i \in 1..MaxChunks : \E j \in 1..Len(req[r].down[i]) : req[r].down[i][j] = "{"
    /\ req[r].redisFailed /\ req[r].usagePushed = 0 /\ req[r].perfPushed = 1

\* ---------------------------------------------------------------------- C28
\* The text of a sequence of chunks.
RECURSIVE TextOf(_)
TextOf(chunks) == IF chunks = <<>> THEN <<>> ELSE Head(chunks) \o TextOf(Tail(chunks))

\* The models of the UsageEvents the events of a text call for, in the order of
\* the events: data.model where the event has one, else the fallback.
RECURSIVE EventModels(_, _)
EventModels(text, fallback) ==
  IF ~includesSep(text) THEN <<>>
  ELSE LET do == InspectPart(FirstPart(text))
       IN (IF do.call THEN <<IF do.model # "" THEN do.model ELSE fallback>> ELSE <<>>)
          \o EventModels(AfterFirstPart(text), fallback)

\* The models of the UsageEvents on usage_queue, oldest first.
RECURSIVE QueuedModels(_)
QueuedModels(queue) ==
  IF queue = <<>> THEN <<>>
  ELSE Append(QueuedModels(Tail(queue)), Head(queue).model)

\* C28 as stated: once an identified request's stream was read to its end and
\* Redis rejected nothing, usage_queue holds one UsageEvent per event
\* 'data: <json>' with a usage object, in order, whose model is data.model
\* where present and the model of the request body otherwise; empty events and
\* [DONE] add nothing.
C28_EventModel ==
  \A r \in Reqs :
    (/\ req[r].stream /\ req[r].pc = "done" /\ req[r].user # NoUser
     /\ req[r].up = <<>> /\ req[r].ended # "cancelled" /\ ~req[r].redisFailed)
    => QueuedModels(usage_queue) = EventModels(TextOf(req[r].rd), req[r].modelName)

\* ---------------------------------------------------------------------- C29
\* Redis rejected the lpush of a RequestLog payload on replica rep.
PerfPushRejected(rep) ==
  \E i \in 1..Len(systemLogs[rep]) :
    systemLogs[rep][i].message = "Failed to enqueue request performance"

\* The RequestLog payloads of request r on request_perf_queue.
PayloadsOf(r) ==
  {i \in 1..Len(request_perf_queue) : request_perf_queue[i].started_at = r}

\* The streaming response of r is over: reader released, one payload with
\* is_stream = true pushed (unless Redis rejected that push).
StreamSettled(r) ==
  /\ req[r].pc = "done" /\ ~req[r].locked
  /\ \/ /\ req[r].perfPushed = 1 /\ Cardinality(PayloadsOf(r)) = 1
        /\ \A i \in PayloadsOf(r) : request_perf_queue[i].is_stream
     \/ req[r].perfPushed = 0 /\ PerfPushRejected(req[r].rep)

\* C29: a streaming response holds the reader's lock and has pushed nothing
\* while it streams; however it ends (end of the upstream body, failed upstream
\* read, client gone) the lock is released before the single RequestLog payload,
\* with is_stream = true, is pushed; and every streaming response, the client
\* connected or gone, ends that way.
C29_StreamSettles ==
  /\ [](\A r \in Reqs :
         req[r].stream =>
           /\ req[r].pc \in {"stream", "pu"} => (req[r].locked /\ PayloadsOf(r) = {})
           /\ req[r].pc = "perf_push" => (~req[r].locked /\ PayloadsOf(r) = {})
           /\ req[r].pc = "done" => StreamSettled(r))
  /\ \A r \in Reqs : req[r].stream ~> StreamSettled(r)

\* The client went away mid-stream; the response ended with the reader released
\* and its payload pushed.
C29_Witness ==
  \E r \in Reqs :
    /\ req[r].stream /\ req[r].client = "gone" /\ req[r].ended = "cancelled"
    /\ req[r].rd # <<>> /\ req[r].down # <<>>
    /\ StreamSettled(r) /\ req[r].perfPushed = 1

\* ---------------------------------------------------------------------- C30
\* q was dispatched to upstream by the main path and upstream answered.
Answered(q) == q.upStatus # 0 /\ ~IsModelsFastPath(q.path, q.method)

Non2xx(status) == ~(status >= 200 /\ status < 300)

\* The 'warn' entries of the system log of replica rep.
WarnEntries(rep) ==
  {i \in 1..Len(systemLogs[rep]) : systemLogs[rep][i].level = "warn"}

\* C30 as stated: a request that upstream answered made exactly one upstream
\* call and, once it has terminated, its client response carries the upstream
\* status, for 2xx and non-2xx and whatever the body; each non-2xx answer added
\* one 'warn' entry to the system log of its replica.
C30_UpstreamPassthrough ==
  /\ \A r \in Reqs :
       Answered(req[r]) =>
         /\ req[r].upstream = 1
         /\ req[r].pc = "done" => req[r].status = req[r].upStatus
  /\ \A rep \in Replicas :
       Cardinality(WarnEntries(rep)) =
         Cardinality({r \in Reqs : /\ Answered(req[r]) /\ req[r].rep = rep
                                   /\ Non2xx(req[r].upStatus)})

\* ---------------------------------------------------------------------- C31
\* The key of the row is one whose values are masked.
Sensitive(key) == \E w \in {"KEY", "PASSWORD", "SECRET"} : w \in KeyWords[key]

\* C31 as stated: for a key containing KEY, PASSWORD or SECRET a value of length
\* <= 8 is rendered as "********", a longer one as its first 4 characters,
\* "********" and its last 4 characters, and the rendering is never the raw value.
C31_AsStated ==
  (view.pc = "rendered" /\ Sensitive(view.key)) =>
    /\ view.masked = IF Len(view.value) <= 8 THEN STARS
                     ELSE SubSeq(view.value, 1, 4) \o STARS
                          \o SubSeq(view.value, Len(view.value) - 3, Len(view.value))
    /\ view.masked # view.value

\* C31 (as amended): for such a key an empty value is rendered as the empty
\* text, a non-empty value of length <= 8 as "********", a longer one as its
\* first 4 characters, "********" and its last 4 characters; nothing else of the
\* value enters the rendering, which is 16 characters long for every longer
\* value.
C31_MaskedByLength ==
  (view.pc = "rendered" /\ Sensitive(view.key)) =>
    LET n == Len(view.value)
    IN /\ n = 0 => view.masked = <<>>
       /\ (n > 0 /\ n <= 8) => view.masked = STARS
       /\ n > 8 =>
            /\ Len(view.masked) = 16
            /\ \A i \in 1..4 : /\ view.masked[i] = view.value[i]
                               /\ view.masked[12 + i] = view.value[n - 4 + i]
            /\ \A i \in 5..12 : view.masked[i] = "*"

\* A secret longer than 8 characters was rendered, and not as itself.
C31_Witness ==
  /\ view.pc = "rendered" /\ Sensitive(view.key)
  /\ Len(view.value) > 8 /\ view.masked # view.value
  /\ \E i \in 5..(Len(view.value) - 4) : view.value[i] = "a"

\* ---------------------------------------------------------------- C32
\* The latest /admin request was a POST /admin/policies that has been answered.
UpsertDone == adm.kind = "post_policy" /\ adm.pc = "idle" /\ adm.status = 200

\* Request r, which came in more than one cache TTL after the upsert of a policy
\* was answered, is in a checkAccess that has the row of that policy.
LateCheck(r) ==
  /\ UpsertDone /\ req[r].pc = "ca_mget" /\ req[r].pid = adm.id
  /\ req[r].startAt > adm.at + CACHE_TTL

\* C32: after a POST /admin/policies upsert of policy P has completed, no
\* checkAccess that starts more than one cache TTL (60 s) later, on any
\* replica, uses another row of P than the upserted one, also when a cached
\* read of P was in flight during the upsert and its cache invalidation.
C32_UpsertWithinTtl ==
  \A r \in Reqs : LateCheck(r) => req[r].policy = policies[req[r].pid]

\* ---------------------------------------------------------------- C40
\* The latest /admin request was a PATCH of user u that has been answered, and
\* it leaves u deactivated.
Deactivated(u) ==
  /\ adm.kind = "patch_user" /\ adm.id = u /\ adm.pc = "idle" /\ adm.status = 200
  /\ IF users[u] = NoRow THEN FALSE ELSE users[u].is_active = 0

\* Request r is an identified POST with a JSON body that came in after the
\* deactivation of its user was answered, and checkAccess has decided on it.
DecidedAfterPatch(r) ==
  /\ NeedsCheck(req[r]) /\ Deactivated(req[r].user)
  /\ req[r].startAt > adm.at
  /\ req[r].pc \in {"fetch", "done"}

\* C40: once PATCH /admin/users/:id with is_active = 0 has returned, every
\* identified POST JSON request of that user that starts afterwards, on any
\* replica, is denied with USER_INACTIVE and not dispatched upstream, also when
\* an earlier request of the user writes the user cache after the PATCH.
C40_DeactivationHolds ==
  \A r \in Reqs :
    DecidedAfterPatch(r) =>
      /\ req[r].pc = "done" /\ req[r].status = 403 /\ req[r].reason = USER_INACTIVE
      /\ req[r].upstream = 0

\* ---------------------------------------------------------------- C33
\* The message of the k-th entry written to a buffer, the boot entry being
\* the first.
Written(k) == IF k = 1 THEN "Middleware started" ELSE LogMessage(k - 1)

\* C33: after any sequence of writeSystemLog calls the buffer holds at most
\* 500 entries, newest first, and they are exactly the most recent min(n, 500)
\* of the n entries written.
C33_RingBuffer ==
  LET logs == systemLogs[1]
      n == now + 1
  IN traffic = "logs" =>
       /\ Len(logs) <= SYSTEM_LOG_LIMIT
       /\ Len(logs) = IF n < SYSTEM_LOG_LIMIT THEN n ELSE SYSTEM_LOG_LIMIT
       /\ \A i \in 1..Len(logs) : logs[i].message = Written(n - i + 1)

\* More than 500 entries have been written: the oldest ones are gone.
C33_Witness ==
  /\ traffic = "logs" /\ now + 1 > SYSTEM_LOG_LIMIT + 1
  /\ Len(systemLogs[1]) = SYSTEM_LOG_LIMIT

\* ---------------------------------------------------------------- C34
\* checkAccess has returned to the handler and its locals are still there.
Decided(q) == q.checked /\ (q.allowed \/ q.reason # "") /\ q.pc \in {"fetch", "done"}
               /\ (q.pc = "done" => q.status = 403)

\* What checkAccess returned: "allowed" or the reason of the denial.
Outcome(q) == IF q.allowed THEN "allowed" ELSE q.reason

\* The result the claim gives for what checkAccess has read.
ExpectedOutcome(q) ==
  IF q.cuser = NoRow THEN USER_INACTIVE
  ELSE IF q.cuser.is_active = 0 THEN USER_INACTIVE
  ELSE IF q.policy = NoRow THEN POLICY_MISSING(q.pid)
  ELSE IF q.policy.daily_token_limit > 0 /\ q.rdDaily >= q.policy.daily_token_limit
    THEN DAILY_EXCEEDED
  ELSE IF q.policy.monthly_token_limit > 0 /\ q.rdMonthly >= q.policy.monthly_token_limit
    THEN MONTHLY_EXCEEDED
  ELSE "allowed"

C35_OneEventPerInference ==
  \A r \in Reqs : req[r].upstream <= 1 => req[r].usagePushed <= 1

\* ---------------------------------------------------------------- C36
\* This step is the UPDATE of a PATCH /admin/users/u.
PatchOf(u) == adm'.n = adm.n + 1 /\ adm'.kind = "patch_user" /\ adm'.id = u

\* C36: ensureUserExists creates the row of a user, with policy 'default',
\* only when the user has none, and leaves an existing row as it is: the only
\* steps that change an existing row are those of PATCH /admin/users/:id,
\* under any interleaving of requests and PATCHes.
C36_InsertOrIgnore ==
  [][\A u \in Users :
       users'[u] # users[u] =>
         \/ PatchOf(u)
         \/ /\ users[u] = NoRow
            /\ users'[u] = [is_active |-> 1, policy_id |-> "default"]
            /\ \E r \in Reqs : req[r].pc = "ensure_insert" /\ req[r].user = u
                                /\ req'[r].pc = "ensure_select"]_vars

\* A request of a user whom a PATCH had deactivated went through
\* ensureUserExists and was refused; the row is still as the PATCH left it.
C36_Witness ==
  \E r \in Reqs :
    /\ RefusedWith(req[r], USER_INACTIVE)
    /\ adm.n >= 1 /\ adm.pc = "idle"
    /\ users[req[r].user] = [is_active |-> 0, policy_id |-> "p1"]

\* ---------------------------------------------------------------- C37
\* POST /admin/config request o has returned { success: true }.
CfgSucceeded(o) == cfgOp[o].pc = "done" /\ cfgOp[o].status = 200

\* C37: two POST /admin/config requests that update disjoint recognized keys
\* both take effect: once both have returned success, system_config holds the
\* value each of them sent for each of its keys.
C37_DisjointUpdatesKept ==
  \A a, b \in CfgOps :
    (/\ a # b /\ CfgSucceeded(a) /\ CfgSucceeded(b)
     /\ DOMAIN cfgOp[a].updates \cap DOMAIN cfgOp[b].updates = {}) =>
      \A k \in DOMAIN cfgOp[a].updates : system_config[k] = cfgOp[a].updates[k]

\* ---------------------------------------------------------------- C38
\* Replica rep is subscribed, every published message has been delivered to it
\* and every reload it triggered has completed.
AllDelivered(rep) ==
  /\ boot[rep].pc = "up" /\ Published # {}
  /\ \A o \in Published : reload[rep][o].pc = "done"

\* What loadRuntimeConfigFromDb makes of the rows of system_config.
EnvOfRows(k) == IF system_config[k] = NoConfigRow THEN "" ELSE system_config[k]

\* C38: once no POST /admin/config is in flight, every published message has
\* been delivered and every reload has completed, the process environment and
\* the runtime variables of each subscribed replica equal the contents of
\* system_config, also when reloads on one replica overlapped and their
\* database reads completed out of order.
C38_ConvergedAtQuiescence ==
  \A rep \in Replicas :
    (CfgAtRest /\ AllDelivered(rep)) =>
      /\ \A k \in ConfigKeySet : procEnv[rep][k] = EnvOfRows(k)
      /\ \A k \in RuntimeKeys : runtime[rep][k] = EnvOfRows(k)

\* ---------------------------------------------------------------- C39
\* The stream of identified request r was read to its end, the client stayed
\* and Redis rejected nothing.
ReadToEnd(r) ==
  /\ req[r].stream /\ req[r].pc = "done" /\ req[r].user # NoUser
  /\ req[r].up = <<>> /\ req[r].ended # "cancelled" /\ ~req[r].redisFailed

\* C39: for a fixed upstream stream of "\n\n"-terminated SSE events, every way
\* of splitting it into chunks, inside an event or inside the separator, makes
\* streamWithUsageTracking enqueue the UsageEvents that the unsplit text calls
\* for: one per usage-bearing event, in the order of the events.
C39_ChunkingIndependent ==
  \A r \in Reqs :
    ReadToEnd(r) => QueuedModels(usage_queue) = EventModels(TextOf(req[r].rd), "")

\* A usage-bearing first event arrived split over two chunks and its
\* UsageEvent was enqueued.
C39_Witness ==
  \E r \in Reqs :
    /\ ReadToEnd(r) /\ Len(req[r].rd) >= 2 /\ ~includesSep(req[r].rd[1])
    /\ InspectPart(FirstPart(TextOf(req[r].rd))).call
    /\ usage_queue # <<>>

====
